---- MODULE Spec2Model ----
(***************************************************************************)
(* ScoutIQ: signal derivation (backend/utils/signals.py and                *)
(* backend/signal_processor.py), the rule-based property analyzer          *)
(* (backend/ai_analyzer.py) and the ScoutGPT client with its interaction   *)
(* log (backend/ai_scoutgpt.py, backend/main.py).                          *)
(*                                                                         *)
(* Python values are encoded as follows.                                   *)
(*   - A dict entry that may hold a number is a record [k, v]: k is        *)
(*     "missing" (key absent), "none" (None), "num" (the integer v),       *)
(*     "nan" (float NaN, as pandas produces for absent cells), "blank"     *)
(*     (the empty string) or "text" (a non-empty non-numeric string).      *)
(*   - A dict entry that may hold a string is a string; MISSING and NONE   *)
(*     are the two sentinels for an absent key and for None.               *)
(*   - Money is in whole dollars.  Confidence before rounding is in        *)
(*     thousandths, after round(confidence, 2) in hundredths.              *)
(*   - A call either returns a record with raised = FALSE, or raises:      *)
(*     [raised |-> TRUE, exc |-> <exception class>].                       *)
(***************************************************************************)
EXTENDS Integers, Sequences, FiniteSets, TLC

\* op, input, output: the position, arguments and result of the current call.
\* ai_logs: the rows of the table scoutiq_ai_logs, oldest first.
\* exchanges: the property id of every exchange with the oracle so far.
\* LAST_QUERY_SIGNALS: the module-level list of main.py.
\* requests: the request each worker thread of the server is handling, with
\* the handler's position and local variables.
VARIABLES op, input, output, ai_logs, exchanges, LAST_QUERY_SIGNALS, requests

vars == <<op, input, output, ai_logs, exchanges, LAST_QUERY_SIGNALS, requests>>

MISSING == "<missing>"
NONE == "<None>"

Num(n) == [k |-> "num", v |-> n]
Absent == [k |-> "missing", v |-> 0]
Null == [k |-> "none", v |-> 0]
NaN == [k |-> "nan", v |-> 0]
Blank == [k |-> "blank", v |-> 0]
Text == [k |-> "text", v |-> 0]

Raise(e) == [raised |-> TRUE, exc |-> e]

Min(a, b) == IF a < b THEN a ELSE b

(***************************************************************************)
(* dict.get(key, default) on a string-valued entry.                        *)
(***************************************************************************)
GetStr(x, default) == IF x = MISSING THEN default ELSE x

(***************************************************************************)
(* ai_analyzer.py, PropertyAnalyzer._rule_based_analysis                   *)
(***************************************************************************)

\* float(x or 0) raises ValueError on a non-numeric string.
FloatRaises(x) == x.k = "text"

\* int(x or 0) raises ValueError on a non-numeric string and on NaN (NaN is
\* truthy, so `or 0` does not replace it).
IntRaises(x) == x.k \in {"text", "nan"}

\* The number `x or 0` coerces to: None, '', 0 and a missing key (whose
\* default is 0) all become 0.
CoerceValue(x) == IF x.k = "num" THEN x.v ELSE 0

BaseScore == 50

ValuationScore(valuation) ==
    IF valuation < 250000 THEN 15
    ELSE IF valuation > 750000 THEN -10
    ELSE 5

\* The prime band written with exclusive ends.
mutAgeScore(property_age) ==
    IF 5 < property_age /\ property_age < 20 THEN 20
    ELSE IF property_age < 5 THEN 10
    ELSE IF property_age > 40 THEN -15
    ELSE 0

AgeScore(property_age) ==
    IF 5 <= property_age /\ property_age <= 20 THEN 20
    ELSE IF property_age < 5 THEN 10
    ELSE IF property_age > 40 THEN -15
    ELSE 0

OwnershipScore(ownership) ==
    IF ownership = "Individual" THEN 5
    ELSE IF ownership \in {"LLC", "Corporation"} THEN 10
    ELSE 0

\* A flood penalty of 30 instead of 20.
mutFloodScore(flood_risk) ==
    IF flood_risk \in {"High", "Medium"} THEN -30
    ELSE IF flood_risk = "Low" THEN 10
    ELSE 0

FloodScore(flood_risk) ==
    IF flood_risk \in {"High", "Medium"} THEN -20
    ELSE IF flood_risk = "Low" THEN 10
    ELSE 0

InvestmentScore(valuation, property_age, ownership, flood_risk) ==
    BaseScore + ValuationScore(valuation) + AgeScore(property_age)
        + OwnershipScore(ownership) + FloodScore(flood_risk)

\* The Buy threshold written with > instead of >=.
mutClassification(score) ==
    IF score > 70 THEN "Buy" ELSE IF score >= 50 THEN "Hold" ELSE "Watch"

Classification(score) ==
    IF score >= 70 THEN "Buy" ELSE IF score >= 50 THEN "Hold" ELSE "Watch"

\* The Buy formula started at 0.65.
mut_RawConfidence(score) ==
    IF score >= 70 THEN 650 + (score - 70) * 10
    ELSE IF score >= 50 THEN 600 + (score - 50) * 5
    ELSE 500 + score * 2

\* The confidence of lines 145, 148, 151 in thousandths, before the cap.
RawConfidence(score) ==
    IF score >= 70 THEN 750 + (score - 70) * 10
    ELSE IF score >= 50 THEN 600 + (score - 50) * 5
    ELSE 500 + score * 2

\* The cap left out.
mutCapConfidence(c) == c

\* confidence = min(confidence, 0.95)
CapConfidence(c) == Min(c, 950)

\* round(confidence, 2) on an IEEE-754 double.  Only the Hold formula yields
\* a value halfway between two hundredths (odd score - 50); the double then
\* lies just below or just above the tie.  These are the Hold scores whose
\* double rounds upwards (0.635, 0.645, 0.655, 0.665); 0.605, 0.615, 0.625,
\* 0.675, 0.685 and 0.695 round downwards.
HalfRoundsUp == {57, 59, 61, 63}

Round2(score, milli) ==
    LET q == milli \div 10
        r == milli % 10
    IN  IF r > 5 THEN q + 1
        ELSE IF r < 5 THEN q
        ELSE IF score \in HalfRoundsUp THEN q + 1 ELSE q

\* The Medium threshold written with > instead of >=.
mutRiskLevel(score) ==
    IF score >= 70 THEN "Low" ELSE IF score > 50 THEN "Medium" ELSE "High"

RiskLevel(score) ==
    IF score >= 70 THEN "Low" ELSE IF score >= 50 THEN "Medium" ELSE "High"

(***************************************************************************)
(* ai_analyzer.py, PropertyAnalyzer._generate_summary.  The paragraph is     *)
(* kept as the record of the parts the f-strings interpolate.              *)
(***************************************************************************)

\* str.lower() on the ownership values of the model.
Lower(s) ==
    CASE s = "Individual" -> "individual"
      [] s = "LLC" -> "llc"
      [] s = "Corporation" -> "corporation"
      [] s = "Unknown" -> "unknown"
      [] s = "High" -> "high"
      [] s = "Medium" -> "medium"
      [] s = "Low" -> "low"
      [] OTHER -> s

Sentiment(classification) ==
    IF classification = "Buy" THEN "strong investment opportunity"
    ELSE IF classification = "Hold" THEN "moderate investment potential"
    ELSE "requires careful evaluation"

SummaryAction(classification) ==
    IF classification = "Buy"
    THEN "This property presents attractive fundamentals with"
    ELSE IF classification = "Hold" THEN "This property offers"
    ELSE "This property warrants caution due to"

FloodClause(flood_risk) ==
    IF flood_risk \in {"High", "Medium"}
    THEN "Note: Property has " \o Lower(flood_risk) \o " flood risk exposure. "
    ELSE IF flood_risk = "Low"
    THEN "Low flood risk enhances investment appeal. "
    ELSE ""

\* ownership.lower() raises AttributeError when ownership is None.
SummaryRaises(ownership) == ownership = NONE

generate_summary(classification, score, valuation, property_age, ownership, flood_risk, city) ==
    [ action |-> SummaryAction(classification),
      disclosed |-> valuation > 0,
      valuation |-> IF valuation > 0 THEN valuation ELSE 0,
      city |-> city,
      new_construction |-> ~(property_age > 0),
      age |-> IF property_age > 0 THEN property_age ELSE 0,
      ownership |-> Lower(ownership),
      sentiment |-> Sentiment(classification),
      flood |-> FloodClause(flood_risk),
      score |-> score,
      llm_fallback |-> FALSE ]

(***************************************************************************)
(* ai_analyzer.py, PropertyAnalyzer._generate_insights                     *)
(***************************************************************************)

ValuationInsight(valuation) ==
    IF valuation < 250000 THEN <<"Entry-level price point">>
    ELSE IF valuation > 750000 THEN <<"Premium valuation">>
    ELSE <<"Mid-market valuation">>

AgeInsight(property_age) ==
    IF property_age < 5 THEN <<"Recent construction">>
    ELSE IF 5 <= property_age /\ property_age <= 20 THEN <<"Prime property age">>
    ELSE IF property_age > 40 THEN <<"Older property">>
    ELSE <<>>

OwnershipInsight(ownership) ==
    IF ownership = "LLC" THEN <<"LLC ownership">>
    ELSE IF ownership = "Corporation" THEN <<"Corporate ownership">>
    ELSE IF ownership = "Individual" THEN <<"Individual ownership">>
    ELSE <<>>

FloodInsight(flood_risk) ==
    IF flood_risk = "High" THEN <<"High flood risk">>
    ELSE IF flood_risk = "Medium" THEN <<"Moderate flood exposure">>
    ELSE IF flood_risk = "Low" THEN <<"Low flood risk">>
    ELSE <<>>

BandInsight(valuation_band) ==
    IF valuation_band = "Low" THEN <<"Below-market valuation">>
    ELSE IF valuation_band = "High" THEN <<"High-end market positioning">>
    ELSE <<>>

ClassificationInsight(classification) ==
    IF classification = "Buy" THEN <<"Strong fundamentals">>
    ELSE IF classification = "Hold" THEN <<"Suitable for patient investors">>
    ELSE <<"Additional due diligence recommended">>

\* s[:n]
Take(s, n) == SubSeq(s, 1, Min(n, Len(s)))

InsightLimit == 6

\* The valuation chain written with independent ifs and the slice dropped.
mut_generate_insights(valuation_band, classification, valuation, property_age, ownership, flood_risk) ==
    (IF valuation < 250000 THEN <<"Entry-level price point">> ELSE <<>>)
        \o (IF valuation > 750000 THEN <<"Premium valuation">>
            ELSE <<"Mid-market valuation">>)
        \o AgeInsight(property_age) \o OwnershipInsight(ownership)
        \o FloodInsight(flood_risk) \o BandInsight(valuation_band)
        \o ClassificationInsight(classification)

\* The risk insight appended before the ownership insight.
mut_order_generate_insights(valuation_band, classification, valuation, property_age, ownership, flood_risk) ==
    Take(ValuationInsight(valuation) \o AgeInsight(property_age)
            \o FloodInsight(flood_risk) \o OwnershipInsight(ownership)
            \o BandInsight(valuation_band)
            \o ClassificationInsight(classification),
         InsightLimit)

generate_insights(valuation_band, classification, valuation, property_age, ownership, flood_risk) ==
    Take(ValuationInsight(valuation) \o AgeInsight(property_age)
            \o OwnershipInsight(ownership) \o FloodInsight(flood_risk)
            \o BandInsight(valuation_band)
            \o ClassificationInsight(classification),
         InsightLimit)

(***************************************************************************)
(* ai_analyzer.py, PropertyAnalyzer._rule_based_analysis, _llm_analysis    *)
(* and analyze_property.  prop is the property dict:                       *)
(*   [primary_valuation, property_age : number entries,                    *)
(*    valuation_band, ownership_type, flood_risk, property_address_city :  *)
(*    string entries].                                                     *)
(***************************************************************************)

rule_based_analysis(prop) ==
    IF FloatRaises(prop.primary_valuation) \/ IntRaises(prop.property_age)
    THEN Raise("ValueError")
    ELSE
    LET valuation == CoerceValue(prop.primary_valuation)
        valuation_band == GetStr(prop.valuation_band, "Unknown")
        ownership == GetStr(prop.ownership_type, "Unknown")
        property_age == CoerceValue(prop.property_age)
        flood_risk == GetStr(prop.flood_risk, "Unknown")
        city == GetStr(prop.property_address_city, "Unknown City")
        score == InvestmentScore(valuation, property_age, ownership, flood_risk)
        classification == Classification(score)
        confidence == CapConfidence(RawConfidence(score))
    IN  IF SummaryRaises(ownership)
        THEN Raise("AttributeError")
        ELSE [ raised |-> FALSE,
               summary |-> generate_summary(classification, score, valuation,
                                            property_age, ownership,
                                            flood_risk, city),
               classification |-> classification,
               confidence |-> Round2(score, confidence),
               insights |-> generate_insights(valuation_band, classification,
                                              valuation, property_age,
                                              ownership, flood_risk),
               risk_level |-> RiskLevel(score),
               investment_score |-> score,
               valuation |-> valuation,
               property_age |-> property_age ]

\* The LLM path falls back to the rules and prefixes the summary.
llm_analysis(prop) ==
    LET result == rule_based_analysis(prop)
    IN  IF result.raised THEN result
        ELSE [result EXCEPT !.summary.llm_fallback = TRUE]

\* use_llm is self.use_llm: the caller's flag and OPENAI_AVAILABLE.
analyze_property(prop, use_llm) ==
    IF use_llm THEN llm_analysis(prop) ELSE rule_based_analysis(prop)

(***************************************************************************)
(* ai_analyzer.py, PropertyAnalyzer.analyze_batch and its helpers          *)
(***************************************************************************)

RECURSIVE SumSeq(_)
SumSeq(s) == IF s = <<>> THEN 0 ELSE Head(s) + SumSeq(Tail(s))

RECURSIVE MinSeq(_)
MinSeq(s) ==
    IF Len(s) = 1 THEN s[1] ELSE Min(Head(s), MinSeq(Tail(s)))

RECURSIVE MaxSeq(_)
MaxSeq(s) ==
    IF Len(s) = 1 THEN s[1]
    ELSE LET m == MaxSeq(Tail(s)) IN IF Head(s) > m THEN Head(s) ELSE m

\* The integer that format(num / den, ".0f") prints: nearest, ties to even.
RoundHalfEven(num, den) ==
    LET q == num \div den
        r == num % den
    IN  IF 2 * r > den THEN q + 1
        ELSE IF 2 * r < den THEN q
        ELSE IF q % 2 = 0 THEN q ELSE q + 1

\* 0 + p.get('primary_valuation', 0) raises TypeError on None and on a string.
SumRaises(x) == x.k \in {"none", "blank", "text"}

\* Truthiness of a number entry: `if p.get(key)`.
Truthy(x) == x.k \in {"text", "nan"} \/ (x.k = "num" /\ x.v # 0)

mut_MarketSentiment(buy_count, total) ==
    IF 2 * buy_count > total THEN "strong investment market"
    ELSE IF 100 * buy_count > 33 * total THEN "moderately favorable market"
    ELSE "cautious market environment"

MarketSentiment(buy_count, total) ==
    IF 2 * buy_count > total THEN "strong investment market"
    ELSE IF 3 * buy_count > total THEN "moderately favorable market"
    ELSE "cautious market environment"

generate_market_summary(properties, buy_count, hold_count, watch_count, valuation_sum) ==
    LET total == Len(properties)
    IN  [ total |-> total,
          avg_valuation |-> RoundHalfEven(valuation_sum, total),
          sentiment |-> MarketSentiment(buy_count, total),
          buy_count |-> buy_count,
          buy_pct |-> RoundHalfEven(buy_count * 100, total),
          hold_count |-> hold_count,
          watch_count |-> watch_count ]

Insight(tag, a, b, c) == [tag |-> tag, a |-> a, b |-> b, c |-> c]

generate_market_insights(properties, analyzed) ==
    LET HasValuation(q) == Truthy(q.primary_valuation)
        HasAge(q) == Truthy(q.property_age)
        withVal == SelectSeq(properties, HasValuation)
        valuations == [i \in DOMAIN withVal |-> withVal[i].primary_valuation.v]
        withAge == SelectSeq(properties, HasAge)
        ages == [i \in DOMAIN withAge |-> withAge[i].property_age.v]
        llc_count == Cardinality({i \in DOMAIN properties :
                                    properties[i].ownership_type = "LLC"})
        high_risk == Cardinality({i \in DOMAIN analyzed :
                                    analyzed[i].risk_level = "High"})
        scores == [i \in DOMAIN analyzed |-> analyzed[i].investment_score]
    IN  (IF valuations # <<>>
         THEN << Insight("Valuation range", MinSeq(valuations), MaxSeq(valuations),
                         RoundHalfEven(SumSeq(valuations), Len(valuations))) >>
         ELSE <<>>)
        \o (IF ages # <<>>
            THEN << Insight("Average property age",
                            RoundHalfEven(SumSeq(ages), Len(ages)), 0, 0) >>
            ELSE <<>>)
        \o (IF 2 * llc_count > Len(properties)
            THEN << Insight("Majority LLC ownership", 0, 0, 0) >>
            ELSE <<>>)
        \o (IF 3 * high_risk > Len(analyzed)
            THEN << Insight("Elevated risk profile", 0, 0, 0) >>
            ELSE <<>>)
        \o << Insight("Average investment score",
                      RoundHalfEven(SumSeq(scores), Len(analyzed)), 0, 0) >>

\* Without the guard for the empty list the mean divides by len([]) = 0.
mutEmptyBatchResult == Raise("ZeroDivisionError")

\* The result for an empty list (lines 63-70).
EmptyBatchResult ==
    [ raised |-> FALSE,
      summary |-> "No properties provided for analysis.",
      classification |-> "Unknown",
      confidence |-> [num |-> 0, den |-> 1],
      insights |-> <<>>,
      properties_analyzed |-> 0 ]

\* The label misspelt in the comparison.
mutCountWatch(analyzed) ==
    Cardinality({i \in DOMAIN analyzed : analyzed[i].classification = "watch"})

\* sum(1 for a in analyzed if a['classification'] == 'Watch')
CountWatch(analyzed) ==
    Cardinality({i \in DOMAIN analyzed : analyzed[i].classification = "Watch"})

CountBuy(analyzed) ==
    Cardinality({i \in DOMAIN analyzed : analyzed[i].classification = "Buy"})

CountHold(analyzed) ==
    Cardinality({i \in DOMAIN analyzed : analyzed[i].classification = "Hold"})

\* confidence is the mean of the per-record confidences (hundredths), kept as
\* the fraction num / den; average_valuation is round(avg, 2), in cents.
analyze_batch(properties, use_llm) ==
    IF properties = <<>> THEN EmptyBatchResult
    ELSE
    LET analyzed == [i \in DOMAIN properties |->
                        analyze_property(properties[i], use_llm)]
        failed == {i \in DOMAIN analyzed : analyzed[i].raised}
    IN  IF failed # {}
        THEN analyzed[CHOOSE i \in failed : \A j \in failed : i <= j]
        ELSE IF \E i \in DOMAIN properties :
                    SumRaises(properties[i].primary_valuation)
        THEN Raise("TypeError")
        ELSE
        LET buy_count == CountBuy(analyzed)
            hold_count == CountHold(analyzed)
            watch_count == CountWatch(analyzed)
            valuation_sum ==
                SumSeq([i \in DOMAIN properties |->
                            CoerceValue(properties[i].primary_valuation)])
            n == Len(properties)
        IN  [ raised |-> FALSE,
              summary |-> generate_market_summary(properties, buy_count,
                              hold_count, watch_count, valuation_sum),
              classification |-> "Mixed Portfolio",
              confidence |->
                  [num |-> SumSeq([i \in DOMAIN analyzed |->
                                      analyzed[i].confidence]),
                   den |-> Len(analyzed)],
              insights |-> generate_market_insights(properties, analyzed),
              properties_analyzed |-> Len(properties),
              breakdown |-> [ buy_opportunities |-> buy_count,
                              hold_candidates |-> hold_count,
                              watch_list |-> watch_count ],
              average_valuation |-> RoundHalfEven(valuation_sum * 100, n) ]

(***************************************************************************)
(* utils/signals.py, SignalComputer.  A raw record is                      *)
(*   [estimated_value, tax_market_value_total, tax_assessed_value_total,   *)
(*    area_lot_sf, property_latitude, property_longitude, year_built,      *)
(*    assessor_last_sale_date, assessor_last_sale_amount : number entries, *)
(*    party_owner1_name_full, party_owner2_name_full : name entries,       *)
(*    contact_owner_mail_address_full, property_address_full,              *)
(*    status_owner_occupied_flag : string entries].                        *)
(* A name entry is [k, s] with k in {"missing", "none", "str"} and s the   *)
(* characters of the name.  Coordinates are in ten-thousandths of a        *)
(* degree.  A date entry is a number entry whose number is the days        *)
(* elapsed from that date to now.  A float quotient a / b is [num, den].   *)
(***************************************************************************)

Name(chars) == [k |-> "str", s |-> chars]
NoName == [k |-> "missing", s |-> <<>>]
NullName == [k |-> "none", s |-> <<>>]

Frac(a, b) == [num |-> a, den |-> b]

\* datetime.now().year
CurrentYear == 2026

\* safe_float: None, '', 'None' and anything float() rejects become 0.0.
safe_float(value) == IF value.k = "num" THEN value.v ELSE 0

\* a or b or c or 0 on floats
FirstNonZero(a, b, c) == IF a # 0 THEN a ELSE IF b # 0 THEN b ELSE c

SignalsValuationBand(primary_value) ==
    IF primary_value > 0
    THEN IF primary_value < 200000 THEN "Low"
         ELSE IF primary_value < 500000 THEN "Medium"
         ELSE IF primary_value < 1000000 THEN "High"
         ELSE "Premium"
    ELSE "Unknown"

compute_valuation_signals(property_data) ==
    LET estimated_value == safe_float(property_data.estimated_value)
        tax_value == safe_float(property_data.tax_market_value_total)
        assessed_value == safe_float(property_data.tax_assessed_value_total)
        primary_value == FirstNonZero(estimated_value, tax_value, assessed_value)
        lot_sf == safe_float(property_data.area_lot_sf)
    IN  [ primary_valuation |-> primary_value,
          valuation_band |-> SignalsValuationBand(primary_value),
          value_per_sf |-> IF lot_sf # 0 /\ lot_sf > 0
                           THEN Frac(primary_value, lot_sf) ELSE Frac(0, 1),
          assessment_ratio |-> IF assessed_value # 0 /\ tax_value # 0 /\ tax_value > 0
                               THEN Frac(assessed_value, tax_value)
                               ELSE Frac(0, 1) ]

LowerLetters == << "a", "b", "c", "d", "e", "f", "g", "h", "i", "j", "k", "l", "m",
                   "n", "o", "p", "q", "r", "s", "t", "u", "v", "w", "x", "y", "z" >>
UpperLetters == << "A", "B", "C", "D", "E", "F", "G", "H", "I", "J", "K", "L", "M",
                   "N", "O", "P", "Q", "R", "S", "T", "U", "V", "W", "X", "Y", "Z" >>

UpperChar(c) ==
    IF \E i \in DOMAIN LowerLetters : LowerLetters[i] = c
    THEN UpperLetters[CHOOSE i \in DOMAIN LowerLetters : LowerLetters[i] = c]
    ELSE c

\* str.upper()
Upper(chars) == [i \in DOMAIN chars |-> UpperChar(chars[i])]

\* keyword in text
Contains(text, keyword) ==
    \E i \in 0..(Len(text) - Len(keyword)) :
        SubSeq(text, i + 1, i + Len(keyword)) = keyword

SignalsKeywords == { <<"L", "L", "C">>, <<"C", "O", "R", "P">>, <<"I", "N", "C">>,
                     <<"L", "P">>, <<"L", "L", "P">> }

HasKeyword(chars) == \E keyword \in SignalsKeywords : Contains(Upper(chars), keyword)

\* property_data.get(key, ''): the characters of the entry; None stays None.
NameChars(entry) == IF entry.k = "str" THEN entry.s ELSE <<>>

\* owner1.upper() is evaluated first; owner2.upper() only when owner1 holds no
\* keyword.  None.upper() raises AttributeError.
OwnershipRaises(property_data) ==
    \/ property_data.party_owner1_name_full.k = "none"
    \/ /\ ~HasKeyword(NameChars(property_data.party_owner1_name_full))
       /\ property_data.party_owner2_name_full.k = "none"

StrTruthy(x) == x \notin {MISSING, NONE, ""}

compute_ownership_signals(property_data) ==
    LET owner1 == property_data.party_owner1_name_full
        owner2 == property_data.party_owner2_name_full
        mail_address == property_data.contact_owner_mail_address_full
        property_address == property_data.property_address_full
    IN  [ ownership_type |->
              IF HasKeyword(NameChars(owner1)) THEN "LLC"
              ELSE IF HasKeyword(NameChars(owner2)) THEN "LLC"
              ELSE "Individual",
          absentee_owner |-> /\ StrTruthy(mail_address)
                             /\ StrTruthy(property_address)
                             /\ mail_address # property_address,
          multiple_owners |-> NameChars(owner2) # <<>>,
          owner_occupied |-> property_data.status_owner_occupied_flag = "1" ]

compute_loan_signals(property_data) ==
    [ loan_maturity |-> Null, loan_amount |-> Null,
      loan_to_value |-> Null, interest_rate |-> Null ]

\* The year int(str(year_built).strip()) yields is accepted: year_built is
\* truthy, parses, and lies in (1800, current year].
YearValid(year_built) ==
    /\ year_built.k = "num"
    /\ 1800 < year_built.v
    /\ year_built.v <= CurrentYear

CenterLat == 302672
CenterLng == -977431

\* The heuristic with the age limit of the near ring used in the fallback too.
mut_compute_flood_risk(property_data) ==
    LET lat == safe_float(property_data.property_latitude)
        lng == safe_float(property_data.property_longitude)
        valuation == safe_float(property_data.tax_market_value_total)
        age == IF YearValid(property_data.year_built)
               THEN CurrentYear - property_data.year_built.v ELSE 0
        \* the squared distance from the centre; 0.05 and 0.1 degrees are 500
        \* and 1000 ten-thousandths
        d2 == (lat - CenterLat) * (lat - CenterLat)
                + (lng - CenterLng) * (lng - CenterLng)
    IN  IF lat > 0 /\ lng < 0
        THEN IF d2 < 500 * 500
             THEN IF valuation > 500000 THEN "High"
                  ELSE IF valuation > 200000 THEN "Medium"
                  ELSE "Low"
             ELSE IF d2 < 1000 * 1000
             THEN IF age > 30 THEN "Medium" ELSE "Low"
             ELSE "Low"
        ELSE IF age > 30 THEN "Medium"
        ELSE IF valuation > 1000000 THEN "High"
        ELSE "Low"

compute_flood_risk(property_data) ==
    LET lat == safe_float(property_data.property_latitude)
        lng == safe_float(property_data.property_longitude)
        valuation == safe_float(property_data.tax_market_value_total)
        age == IF YearValid(property_data.year_built)
               THEN CurrentYear - property_data.year_built.v ELSE 0
        \* the squared distance from the centre; 0.05 and 0.1 degrees are 500
        \* and 1000 ten-thousandths
        d2 == (lat - CenterLat) * (lat - CenterLat)
                + (lng - CenterLng) * (lng - CenterLng)
    IN  IF lat > 0 /\ lng < 0
        THEN IF d2 < 500 * 500
             THEN IF valuation > 500000 THEN "High"
                  ELSE IF valuation > 200000 THEN "Medium"
                  ELSE "Low"
             ELSE IF d2 < 1000 * 1000
             THEN IF age > 30 THEN "Medium" ELSE "Low"
             ELSE "Low"
        ELSE IF age > 40 THEN "Medium"
        ELSE IF valuation > 1000000 THEN "High"
        ELSE "Low"

AgeCategory(age) ==
    IF age < 5 THEN "New"
    ELSE IF age < 20 THEN "Recent"
    ELSE IF age < 50 THEN "Mature"
    ELSE "Old"

\* signals.get('property_age', 0) > 30: the key is always set, so the default
\* is never used, and None > 30 raises TypeError.
RiskRaises(property_data) == ~YearValid(property_data.year_built)

compute_risk_signals(property_data) ==
    LET year_built == property_data.year_built
        age == CurrentYear - year_built.v
    IN  [ tax_delinquent |-> FALSE,
          flood_risk |-> compute_flood_risk(property_data),
          property_age |-> IF YearValid(year_built) THEN Num(age) ELSE Null,
          age_category |-> IF YearValid(year_built) THEN AgeCategory(age)
                           ELSE "Unknown",
          needs_renovation |-> YearValid(year_built) /\ age > 30 ]

compute_market_signals(property_data) ==
    LET last_sale_date == property_data.assessor_last_sale_date
        parsed == last_sale_date.k = "num"
    IN  [ last_sale_date |-> last_sale_date,
          last_sale_amount |-> safe_float(property_data.assessor_last_sale_amount),
          days_since_sale |-> IF parsed THEN Num(last_sale_date.v) ELSE Null,
          recent_sale |-> parsed /\ last_sale_date.v < 365,
          price_appreciation |-> Null ]

compute_property_signals(property_data) ==
    IF OwnershipRaises(property_data) THEN Raise("AttributeError")
    ELSE IF RiskRaises(property_data) THEN Raise("TypeError")
    ELSE [raised |-> FALSE]
            @@ compute_valuation_signals(property_data)
            @@ compute_ownership_signals(property_data)
            @@ compute_loan_signals(property_data)
            @@ compute_risk_signals(property_data)
            @@ compute_market_signals(property_data)

\* str.lower() on a valuation band.
LowerBand(band) == IF band = "Premium" THEN "premium" ELSE Lower(band)

\* _rule_based_classification on a combined record; p.get(key) or 0 / ''
\* replaces None and absent entries.
rule_based_classification(p) ==
    LET age == IF p.property_age.k = "num" THEN p.property_age.v ELSE 0
        absentee == p.absentee_owner
        band == LowerBand(p.valuation_band)
        recent_sale == p.recent_sale
    IN  IF band \in {"high", "premium"} /\ ~absentee /\ age < 25 THEN "Buy"
        ELSE IF recent_sale /\ band \in {"medium", "high", "premium"} THEN "Hold"
        ELSE IF absentee /\ band \in {"low", "medium"} THEN "Watch"
        ELSE "Hold"

\* The dict without the given keys.
Without(d, keys) == [key \in DOMAIN d \ keys |-> d[key]]

\* The minimal signals of the except branch.
SafeDefault ==
    [ primary_valuation |-> 0, valuation_band |-> "Unknown",
      ownership_type |-> "Unknown", absentee_owner |-> FALSE,
      property_age |-> Null, age_category |-> "Unknown" ]

\* One iteration of the loop: {**property_data, **signals} plus the hint, or
\* the except branch.  In d1 @@ d2 the entries of d1 win.
batch_record(property_data) ==
    LET signals == compute_property_signals(property_data)
        combined == Without(signals, {"raised", "exc"}) @@ property_data
    IN  IF signals.raised
        THEN [classification_hint |-> "Watch"] @@ SafeDefault @@ property_data
        ELSE [classification_hint |-> rule_based_classification(combined)]
                @@ combined

\* The loop without the except branch's append: a failing record is dropped.
mut_compute_batch_signals(properties) ==
    LET Derived(property_data) == ~compute_property_signals(property_data).raised
        kept == SelectSeq(properties, Derived)
    IN  [raised |-> FALSE,
         results |-> [i \in DOMAIN kept |-> batch_record(kept[i])]]

compute_batch_signals(properties) ==
    [raised |-> FALSE,
     results |-> [i \in DOMAIN properties |-> batch_record(properties[i])]]

(***************************************************************************)
(* Inputs.  Each set holds the values on both sides of every threshold the *)
(* code compares with, and the absent / None / malformed forms.            *)
(***************************************************************************)

MaxBatch == 3

\* The classification and risk thresholds are probed on -ScoreProbe..ScoreProbe.
ScoreProbe == 150

Valuations ==
    {Absent, Null, Text}
        \cup {Num(n) : n \in {0, 249999, 250000, 350000, 750000, 750001}}

Ages ==
    {Absent, Null, NaN} \cup {Num(n) : n \in {0, 4, 5, 15, 20, 21, 40, 41}}

Ownerships == {MISSING, NONE, "Individual", "LLC", "Corporation", "Unknown"}

FloodRisks == {MISSING, "High", "Medium", "Low", "Unknown"}

Bands == {MISSING, "Low", "Mid", "High", "Unknown"}

Cities == {"Austin"}

Properties ==
    [ primary_valuation : Valuations, property_age : Ages,
      valuation_band : Bands, ownership_type : Ownerships,
      flood_risk : FloodRisks, property_address_city : Cities ]

Property(valuation, age, band, ownership, flood) ==
    [ primary_valuation |-> valuation, property_age |-> age,
      valuation_band |-> band, ownership_type |-> ownership,
      flood_risk |-> flood, property_address_city |-> "Austin" ]

\* The records batches are built from: a Buy, a Hold and two Watch records,
\* a record without valuation and age keys, and records with a None
\* valuation, a NaN age and a None ownership.
BatchProperties ==
    { Property(Num(350000), Num(15), "Mid", "Individual", "Low"),
      Property(Num(750001), Num(21), "High", "LLC", "Unknown"),
      Property(Num(750001), Num(41), "High", "Individual", "High"),
      Property(Num(750001), Num(41), "High", "Unknown", "Medium"),
      [Property(Absent, Absent, MISSING, "LLC", NONE)
          EXCEPT !.property_address_city = MISSING],
      Property(Null, Num(15), "Unknown", "Individual", "Low"),
      Property(Num(350000), NaN, "Mid", "Individual", "Low"),
      Property(Num(350000), Num(15), "Mid", NONE, "Low") }

SeqsUpTo(S, n) == UNION {[1..m -> S] : m \in 0..n}

AnalyzerCalls ==
    [fn : {"analyze_property"}, prop : Properties, use_llm : BOOLEAN]
        \cup [fn : {"analyze_batch"},
              properties : SeqsUpTo(BatchProperties, MaxBatch),
              use_llm : BOOLEAN]

NoOutput == [raised |-> FALSE]

(***************************************************************************)
(* The analyzer: a call is drawn, the function is applied to it.           *)
(***************************************************************************)

Init ==
    /\ op = "call"
    /\ input \in AnalyzerCalls
    /\ output = NoOutput
    /\ ai_logs = <<>>
    /\ exchanges = <<>>
    /\ LAST_QUERY_SIGNALS = <<>>
    /\ requests = <<>>

AnalyzeProperty ==
    /\ op = "call"
    /\ input.fn = "analyze_property"
    /\ output' = analyze_property(input.prop, input.use_llm)
    /\ op' = "return"
    /\ UNCHANGED <<input, ai_logs, exchanges, LAST_QUERY_SIGNALS, requests>>

AnalyzeBatch ==
    /\ op = "call"
    /\ input.fn = "analyze_batch"
    /\ output' = analyze_batch(input.properties, input.use_llm)
    /\ op' = "return"
    /\ UNCHANGED <<input, ai_logs, exchanges, LAST_QUERY_SIGNALS, requests>>

Next == AnalyzeProperty \/ AnalyzeBatch

Spec == Init /\ [][Next]_vars

\* The call of analyze_property / analyze_batch has returned a value.
Returned(fn) == op = "return" /\ input.fn = fn /\ ~output.raised

(***************************************************************************)
(* Properties of the analyzer                                              *)
(***************************************************************************)

\* C1: the confidence _rule_based_analysis returns lies in [0, 0.95]
\* (0..95 hundredths), whatever the input signals.
C1_ConfidenceInRange ==
    Returned("analyze_property")
        => output.confidence >= 0 /\ output.confidence <= 95

\* The cap acts: the score is 105, whose uncapped confidence would be 1.10.
C1_CapReached ==
    /\ Returned("analyze_property")
    /\ output.investment_score = 105
    /\ output.confidence = 95

\* C2: the investment_score analyze_property returns is an integer in 0..100.
C2_ScoreWithin0To100 ==
    Returned("analyze_property")
        => output.investment_score \in 0..100

\* C3, as stated: the combined valuation, age, ownership and flood-risk
\* penalties make _rule_based_analysis return an investment_score below 0.
\* The score decreases with every penalty, so some combination reaches a
\* negative score only if the one with every penalty and no bonus does.
C3_ScoreBelowZeroReachable ==
    (/\ Returned("analyze_property")
     /\ output.valuation > 750000
     /\ output.property_age > 40
     /\ input.prop.ownership_type \notin {"Individual", "LLC", "Corporation"}
     /\ input.prop.flood_risk \in {"High", "Medium"})
        => output.investment_score < 0

\* C3, amended: the score is the unclamped sum, and the combined penalties
\* never drive it below 5 = 50 - 10 - 15 - 20 (so never below 0).
C3_ScoreAtLeastFive ==
    Returned("analyze_property")
        => /\ output.investment_score >= 5
           /\ (/\ output.valuation > 750000
               /\ output.property_age > 40
               /\ input.prop.ownership_type \notin {"Individual", "LLC", "Corporation"}
               /\ input.prop.flood_risk \in {"High", "Medium"})
                  => output.investment_score = 5

\* Every penalty applies and no bonus: the lowest score.
C3_AllPenalties ==
    /\ Returned("analyze_property")
    /\ output.valuation > 750000
    /\ output.property_age > 40
    /\ input.prop.ownership_type = "Unknown"
    /\ input.prop.flood_risk = "High"
    /\ output.investment_score = 5

\* The classification chain on every integer of -ScoreProbe..ScoreProbe, the
\* scores no input reaches included: exactly one label, by the thresholds.
ClassificationIsPartition ==
    \A score \in -ScoreProbe..ScoreProbe :
        LET c == Classification(score)
        IN  /\ Cardinality({l \in {"Buy", "Hold", "Watch"} : l = c}) = 1
            /\ (c = "Buy") <=> (score >= 70)
            /\ (c = "Hold") <=> (50 <= score /\ score <= 69)
            /\ (c = "Watch") <=> (score < 50)

\* C4: every integer score maps to exactly one of Buy (score >= 70), Hold
\* (50 <= score <= 69) and Watch (score < 50), and analyze_property returns
\* no other classification.
C4_ClassificationThresholds ==
    Returned("analyze_property")
        => LET score == output.investment_score
               c == output.classification
           IN  /\ c \in {"Buy", "Hold", "Watch"}
               /\ (c = "Buy") <=> (score >= 70)
               /\ (c = "Hold") <=> (50 <= score /\ score <= 69)
               /\ (c = "Watch") <=> (score < 50)
               /\ ClassificationIsPartition

\* The lowest Buy score.
C4_ScoreSeventyIsBuy ==
    /\ Returned("analyze_property")
    /\ output.investment_score = 70
    /\ output.classification = "Buy"

\* The risk level against the classification on every integer of
\* -ScoreProbe..ScoreProbe.
RiskMirrorsOnEveryScore ==
    \A score \in -ScoreProbe..ScoreProbe :
        LET c == Classification(score)
            risk == RiskLevel(score)
        IN  /\ (risk = "Low") <=> (c = "Buy")
            /\ (risk = "Medium") <=> (c = "Hold")
            /\ (risk = "High") <=> (c = "Watch")

\* C5: risk_level is Low exactly when the classification is Buy (score >= 70),
\* Medium exactly when Hold (50..69), High exactly when Watch (score < 50).
C5_RiskMirrorsClassification ==
    Returned("analyze_property")
        => LET score == output.investment_score
               c == output.classification
               risk == output.risk_level
           IN  /\ risk \in {"Low", "Medium", "High"}
               /\ (risk = "Low") <=> (c = "Buy")
               /\ (risk = "Medium") <=> (c = "Hold")
               /\ (risk = "High") <=> (c = "Watch")
               /\ (risk = "Low") <=> (score >= 70)
               /\ (risk = "Medium") <=> (50 <= score /\ score <= 69)
               /\ (risk = "High") <=> (score < 50)
               /\ RiskMirrorsOnEveryScore

\* The lowest Hold score has Medium risk.
C5_ScoreFiftyIsMedium ==
    /\ Returned("analyze_property")
    /\ output.investment_score = 50
    /\ output.classification = "Hold"
    /\ output.risk_level = "Medium"

\* C6: the score is 50 plus the four adjustments of the table, and the record
\* {350000, 15, Individual, Low} gives 90, Buy, 0.95, Low.
C6_ScoreIsBasePlusAdjustments ==
    Returned("analyze_property")
        => LET v == output.valuation
               a == output.property_age
               o == input.prop.ownership_type
               f == input.prop.flood_risk
               byValuation == CASE v < 250000 -> 15
                                [] v > 750000 -> -10
                                [] v >= 250000 /\ v <= 750000 -> 5
               byAge == CASE a \in 5..20 -> 20
                          [] a < 5 -> 10
                          [] a > 40 -> -15
                          [] a \in 21..40 -> 0
               byOwnership == CASE o = "Individual" -> 5
                                [] o \in {"LLC", "Corporation"} -> 10
                                [] OTHER -> 0
               byFlood == CASE f \in {"High", "Medium"} -> -20
                            [] f = "Low" -> 10
                            [] OTHER -> 0
           IN  /\ output.investment_score
                      = 50 + byValuation + byAge + byOwnership + byFlood
               /\ (v = 350000 /\ a = 15 /\ o = "Individual" /\ f = "Low")
                      => /\ output.investment_score = 90
                         /\ output.classification = "Buy"
                         /\ output.confidence = 95
                         /\ output.risk_level = "Low"

\* The record of the example has been analysed.
C6_ExampleAnalysed ==
    /\ Returned("analyze_property")
    /\ input.prop = Property(Num(350000), Num(15), "Mid", "Individual", "Low")
    /\ output.investment_score = 90

\* C7: for a batch of n >= 1 records analyze_batch returns
\* properties_analyzed = n and buy + hold + watch = n.
C7_BatchCountsAddUp ==
    (Returned("analyze_batch") /\ Len(input.properties) >= 1)
        => LET n == Len(input.properties)
               b == output.breakdown
           IN  /\ output.properties_analyzed = n
               /\ b.buy_opportunities + b.hold_candidates + b.watch_list = n

\* A batch of at least two records with a Buy, a Hold and a Watch in it.
C7_MixedBatch ==
    /\ Returned("analyze_batch")
    /\ Len(input.properties) >= 2
    /\ output.breakdown.buy_opportunities >= 1
    /\ output.breakdown.hold_candidates >= 1
    /\ output.breakdown.watch_list >= 1

\* C8, as stated: for an empty batch analyze_batch returns properties_analyzed
\* 0, classification "Unknown", confidence 0.0, empty insights, and zero
\* counts per classification.
C8_EmptyBatchZeroCounts ==
    (op = "return" /\ input.fn = "analyze_batch" /\ input.properties = <<>>)
        => /\ ~output.raised
           /\ output.properties_analyzed = 0
           /\ output.classification = "Unknown"
           /\ output.confidence.num = 0
           /\ output.insights = <<>>
           /\ "breakdown" \in DOMAIN output
           /\ output.breakdown.buy_opportunities = 0
           /\ output.breakdown.hold_candidates = 0
           /\ output.breakdown.watch_list = 0

\* C8, amended: for an empty batch analyze_batch does not fail and returns
\* exactly summary, classification "Unknown", confidence 0.0, empty insights
\* and properties_analyzed 0; the result has no per-classification counts.
C8_EmptyBatchNoData ==
    (op = "return" /\ input.fn = "analyze_batch" /\ input.properties = <<>>)
        => /\ ~output.raised
           /\ output.properties_analyzed = 0
           /\ output.classification = "Unknown"
           /\ output.confidence.num = 0
           /\ output.insights = <<>>
           /\ DOMAIN output = {"raised", "summary", "classification",
                               "confidence", "insights", "properties_analyzed"}

\* analyze_batch has been applied to the empty list.
C8_EmptyBatchAnalysed ==
    /\ op = "return"
    /\ input.fn = "analyze_batch"
    /\ input.properties = <<>>

\* C9: the insights list of analyze_property has at most 6 entries.
C9_AtMostSixInsights ==
    Returned("analyze_property") => Len(output.insights) <= 6

\* Every one of the six dimensions contributes an entry.
C9_SixInsights ==
    /\ Returned("analyze_property")
    /\ Len(output.insights) = 6

(***************************************************************************)
(* Signal derivation for one record: a raw record is drawn and             *)
(* compute_property_signals is applied to it.                              *)
(***************************************************************************)

JohnSmith == Name(<<"J", "o", "h", "n", " ", "S", "m", "i", "t", "h">>)
AcmeLlc == Name(<<"A", "c", "m", "e", " ", "L", "l", "c">>)
BigLp == Name(<<"B", "i", "g", " ", "L", "P">>)

\* Coordinates: none, 0.01 and 0.07 degrees from the centre, far away.
Coordinates ==
    { <<Null, Null>>, <<Num(302772), Num(-977431)>>,
      <<Num(302672), Num(-976731)>>, <<Num(320000), Num(-960000)>> }

RawRecords ==
    { [ estimated_value |-> ev,
        tax_market_value_total |-> tv,
        tax_assessed_value_total |-> av,
        area_lot_sf |-> Num(5000),
        party_owner1_name_full |-> o1,
        party_owner2_name_full |-> o2,
        contact_owner_mail_address_full |-> mail,
        property_address_full |-> "1 MAIN ST",
        status_owner_occupied_flag |-> "1",
        property_latitude |-> c[1],
        property_longitude |-> c[2],
        year_built |-> yb,
        assessor_last_sale_date |-> sd,
        assessor_last_sale_amount |-> IF sd.k = "num" THEN Num(250000) ELSE Null ] :
      ev \in {Null, Num(300000)},
      tv \in {Null, Text, Num(150000), Num(600000), Num(1200000)},
      av \in {Absent, Num(100000)},
      o1 \in {NoName, NullName, JohnSmith, AcmeLlc},
      o2 \in {NoName, NullName, BigLp},
      mail \in {MISSING, "PO BOX 9"},
      c \in Coordinates,
      yb \in {Absent, Null, Blank, Text, Num(1700), Num(1980), Num(1991), Num(2000)},
      sd \in {Text, Num(100)} }

\* A raw record of the batches.
BatchRecord(ev, tv, o1, mail, yb, sd) ==
    [ estimated_value |-> ev,
      tax_market_value_total |-> tv,
      tax_assessed_value_total |-> Absent,
      area_lot_sf |-> Num(5000),
      party_owner1_name_full |-> o1,
      party_owner2_name_full |-> NoName,
      contact_owner_mail_address_full |-> mail,
      property_address_full |-> "1 MAIN ST",
      status_owner_occupied_flag |-> "1",
      property_latitude |-> Null,
      property_longitude |-> Null,
      year_built |-> yb,
      assessor_last_sale_date |-> sd,
      assessor_last_sale_amount |-> IF sd.k = "num" THEN Num(250000) ELSE Null ]

\* The records batches are built from: one for each outcome of the hint (Buy,
\* Hold by a recent sale, Watch, Hold by default), one without a year built
\* and one with a None owner name.
BatchRecords ==
    { BatchRecord(Null, Num(600000), JohnSmith, MISSING, Num(2010), Text),
      BatchRecord(Num(300000), Null, JohnSmith, MISSING, Num(1980), Num(100)),
      BatchRecord(Null, Num(150000), AcmeLlc, "PO BOX 9", Num(1991), Text),
      BatchRecord(Null, Num(1200000), JohnSmith, MISSING, Num(1980), Text),
      BatchRecord(Null, Num(600000), JohnSmith, MISSING, Null, Text),
      BatchRecord(Num(300000), Null, NullName, MISSING, Num(2010), Text) }

SignalCalls ==
    [fn : {"compute_property_signals"}, record : RawRecords]
        \cup [fn : {"compute_batch_signals"},
              properties : SeqsUpTo(BatchRecords, MaxBatch)]

InitSignals ==
    /\ op = "call"
    /\ input \in SignalCalls
    /\ output = NoOutput
    /\ ai_logs = <<>>
    /\ exchanges = <<>>
    /\ LAST_QUERY_SIGNALS = <<>>
    /\ requests = <<>>

ComputePropertySignals ==
    /\ op = "call"
    /\ input.fn = "compute_property_signals"
    /\ output' = compute_property_signals(input.record)
    /\ op' = "return"
    /\ UNCHANGED <<input, ai_logs, exchanges, LAST_QUERY_SIGNALS, requests>>

ComputeBatchSignals ==
    /\ op = "call"
    /\ input.fn = "compute_batch_signals"
    /\ output' = compute_batch_signals(input.properties)
    /\ op' = "return"
    /\ UNCHANGED <<input, ai_logs, exchanges, LAST_QUERY_SIGNALS, requests>>

NextSignals == ComputePropertySignals \/ ComputeBatchSignals

SpecSignals == InitSignals /\ [][NextSignals]_vars

(***************************************************************************)
(* Properties of the signal derivation                                     *)
(***************************************************************************)

\* C10: compute_property_signals never raises on a missing, null, blank or
\* malformed field; it returns the signals, the affected one at its default.
C10_DerivationNeverRaises ==
    (op = "return" /\ input.fn = "compute_property_signals") => ~output.raised

\* C11: compute_batch_signals over n records returns n records in input
\* order; a record whose derivation raises becomes the safe-default record
\* (primary_valuation 0, band Unknown, hint Watch), every other record carries
\* its derived signals, and the call itself never raises.
C11_BatchKeepsEveryRecord ==
    (op = "return" /\ input.fn = "compute_batch_signals")
        => /\ ~output.raised
           /\ Len(output.results) = Len(input.properties)
           /\ \A i \in DOMAIN input.properties :
                 LET p == input.properties[i]
                     r == output.results[i]
                     signals == compute_property_signals(p)
                 IN  /\ \A key \in DOMAIN p : r[key] = p[key]
                     /\ r.classification_hint \in {"Buy", "Hold", "Watch"}
                     /\ signals.raised
                           => /\ r.primary_valuation = 0
                              /\ r.valuation_band = "Unknown"
                              /\ r.classification_hint = "Watch"
                     /\ ~signals.raised
                           => \A key \in DOMAIN signals \ {"raised"} :
                                 r[key] = signals[key]

\* A failing record between two records that are derived normally.
C11_FailureInTheMiddle ==
    /\ op = "return"
    /\ input.fn = "compute_batch_signals"
    /\ Len(input.properties) = 3
    /\ ~compute_property_signals(input.properties[1]).raised
    /\ compute_property_signals(input.properties[2]).raised
    /\ ~compute_property_signals(input.properties[3]).raised
    /\ output.results[1].classification_hint = "Buy"
    /\ output.results[2].valuation_band = "Unknown"
    /\ output.results[3].valuation_band = "Premium"

(***************************************************************************)
(* Failure handling of the analyzer                                        *)
(***************************************************************************)

\* C12: analyze_property and analyze_batch never raise, whatever the records,
\* records with missing or None signal fields included: they return a value.
C12_AnalyzerNeverRaises ==
    (op = "return" /\ input.fn \in {"analyze_property", "analyze_batch"})
        => ~output.raised

(***************************************************************************)
(* backend/ai_scoutgpt.py: the ScoutGPT client.                            *)
(*                                                                         *)
(* A dict with arbitrary keys is a function from its keys.  A JSON value   *)
(* that may be null or a list is [k |-> "none"] or [k |-> "list", v].      *)
(* The response of requests.post is                                        *)
(*   [kind |-> "exception"]            a RequestException (no connection,  *)
(*                                     timeout), or                        *)
(*   [kind |-> "response", status_code, body]                              *)
(* where body is empty, a JSON object, a JSON array, or text that is not   *)
(* JSON.  For the last one resp.json() raises an error that is a           *)
(* RequestException or not, depending on the installed requests version:   *)
(* the body carries which one.                                             *)
(* Of a log row the columns property_id, output_response, classification   *)
(* and confidence are kept; the confidence is in hundredths.               *)
(***************************************************************************)

EmptyDict == <<>>

\* d.get(key, default)
Get(d, key, default) == IF key \in DOMAIN d THEN d[key] ELSE default

List(items) == [k |-> "list", v |-> items]

AllowedFields ==
    { "property_id", "attom_id", "address", "property_address_full",
      "primary_valuation", "valuation_band", "ownership_type", "loan_maturity",
      "flood_risk", "tax_delinquent", "property_latitude", "property_longitude" }

\* _filter_signal; input_schema is the set of the schema's field names.
filter_signal(signal, input_schema) ==
    IF input_schema = {}
    THEN [key \in DOMAIN signal \cap AllowedFields |-> signal[key]]
    ELSE LET shaped ==
                 { field \in input_schema :
                     \/ field \in DOMAIN signal
                     \/ field = "property_id" /\ "attom_id" \in DOMAIN signal
                     \/ field = "address" /\ "property_address_full" \in DOMAIN signal }
         IN  [ field \in shaped |->
                 IF field \in DOMAIN signal THEN signal[field]
                 ELSE IF field = "property_id" THEN signal["attom_id"]
                 ELSE signal["property_address_full"] ]

NetworkFailure == [kind |-> "exception"]
HttpResponse(status_code, body) == [kind |-> "response", status_code |-> status_code, body |-> body]

EmptyBody == [content |-> "empty"]
JsonObject(data) == [content |-> "object", data |-> data]
JsonArray == [content |-> "array"]
NotJson(caught) == [content |-> "text", json_error_is_request_exception |-> caught]

ErrorResult(summary, insights) ==
    [ raised |-> FALSE, summary |-> summary, classification |-> "Error",
      confidence |-> 0, insights |-> insights ]

NetworkError == ErrorResult("Network error", <<"Network connection failed">>)

\* The normalisation of the body of a 200 response.
normalize(data) ==
    LET confidence == Get(data, "confidence", Num(0))
        insights == Get(data, "insights", List(<<>>))
    IN  IF confidence.k = "text" THEN Raise("ValueError")
        ELSE [ raised |-> FALSE,
               summary |-> Get(data, "summary", ""),
               classification |->
                   Get(data, "classification", Get(data, "status", "Unknown")),
               confidence |-> IF confidence.k = "num" THEN confidence.v ELSE 0,
               insights |-> IF insights.k = "list" THEN insights.v ELSE <<>> ]

\* The try statement of call_scoutgpt without its _log calls: the result, or
\* the exception that leaves call_scoutgpt.
exchange(response) ==
    IF response.kind = "exception" THEN NetworkError
    ELSE IF response.status_code = 200
    THEN LET body == response.body
         IN  IF body.content = "text"
             THEN IF body.json_error_is_request_exception
                  THEN NetworkError ELSE Raise("JSONDecodeError")
             ELSE IF body.content = "array" THEN Raise("AttributeError")
             ELSE IF body.content = "empty" THEN normalize(EmptyDict)
             ELSE normalize(body.data)
    ELSE ErrorResult("ScoutGPT HTTP " \o ToString(response.status_code),
                     IF response.body.content = "empty"
                     THEN <<"No content">> ELSE <<"resp.text[:200]">>)

\* The row _log builds: the property_id of the first shaped signal, '' when
\* there is none.
log_entry(payload, out) ==
    LET first == IF payload.signals = <<>> THEN EmptyDict ELSE payload.signals[1]
    IN  [ property_id |-> Get(first, "property_id", ""),
          output_response |-> Without(out, {"raised"}),
          classification |-> out.classification,
          confidence |-> out.confidence ]

\* _log: add and commit the row; when that fails the session is rolled back
\* and the failure is swallowed.
log(logs, payload, out, db_ok) ==
    IF db_ok THEN Append(logs, log_entry(payload, out)) ELSE logs

\* The id under which an exchange is remembered in exchanges.
SentId(signal_batch) ==
    IF signal_batch = <<>> THEN "" ELSE Get(signal_batch[1], "attom_id", "")

\* call_scoutgpt: the result (or the exception) and the log afterwards.
call_scoutgpt(logs, signal_batch, input_schema, response, db_ok) ==
    LET signals == [i \in DOMAIN signal_batch |->
                        filter_signal(signal_batch[i], input_schema)]
        payload == [context |-> EmptyDict, signals |-> signals]
        result == exchange(response)
    IN  [ result |-> result,
          ai_logs |-> IF result.raised THEN logs
                      ELSE log(logs, payload, result, db_ok) ]

(***************************************************************************)
(* backend/main.py: the endpoints around the client.  A response is        *)
(* [status, ...]; an HTTPException is its status and detail.               *)
(***************************************************************************)

HTTPException(status, detail) == [status |-> status, detail |-> detail]

\* The rows of the table tax_assessor, by id, in the order a query yields them.
TaxAssessorRows == <<"P1", "P2">>
TaxAssessorIds == {TaxAssessorRows[i] : i \in DOMAIN TaxAssessorRows}

\* The dict /api/ai-summary builds from a row (the fields the model keeps).
PropDict(property_id) ==
    [ attom_id |-> property_id,
      property_address_full |-> "1 MAIN ST",
      property_address_city |-> "Austin",
      tax_market_value_total |-> "600000",
      year_built |-> "2010" ]

\* /api/ai-summary
ai_summary(logs, property_id, input_schema, response, db_ok) ==
    IF property_id \in {MISSING, NONE, ""}
    THEN [ response |-> HTTPException(400, "property_id is required"),
           ai_logs |-> logs, sent |-> <<>> ]
    ELSE IF property_id \notin TaxAssessorIds
    THEN [ response |-> HTTPException(404, "Property not found"),
           ai_logs |-> logs, sent |-> <<>> ]
    ELSE LET called == call_scoutgpt(logs, <<PropDict(property_id)>>,
                                     input_schema, response, db_ok)
         IN  [ response |->
                   IF called.result.raised
                   THEN HTTPException(500, "AI summary failed")
                   ELSE [ status |-> 200, property_id |-> property_id,
                          ai_summary |-> called.result ],
               ai_logs |-> called.ai_logs,
               sent |-> <<property_id>> ]

\* The dict /api/ai/batch builds from a row; the keys it does not set read as
\* absent.  Row P2 has no year built.
BatchObj(property_id) ==
    [ attom_id |-> property_id,
      property_address_full |-> "1 MAIN ST",
      property_latitude |-> Num(302772),
      property_longitude |-> Num(-977431),
      tax_market_value_total |-> Num(600000),
      year_built |-> IF property_id = "P2" THEN Null ELSE Num(2010),
      estimated_value |-> Absent,
      tax_assessed_value_total |-> Absent,
      area_lot_sf |-> Absent,
      party_owner1_name_full |-> NoName,
      party_owner2_name_full |-> NoName,
      contact_owner_mail_address_full |-> MISSING,
      status_owner_occupied_flag |-> MISSING,
      assessor_last_sale_date |-> Absent,
      assessor_last_sale_amount |-> Absent ]

\* The loop "for r in results": one exchange per record; an exception leaves
\* the loop, the rows logged before it stay.
RECURSIVE batch_exchanges(_, _, _, _, _)
batch_exchanges(logs, records, responses, input_schema, db_ok) ==
    IF records = <<>>
    THEN [raised |-> FALSE, results |-> <<>>, ai_logs |-> logs, sent |-> <<>>]
    ELSE LET r == Head(records)
             called == call_scoutgpt(logs, <<r>>, input_schema,
                                     Head(responses), db_ok)
             rest == batch_exchanges(called.ai_logs, Tail(records),
                                     Tail(responses), input_schema, db_ok)
         IN  IF called.result.raised
             THEN [ raised |-> TRUE, results |-> <<>>,
                    ai_logs |-> called.ai_logs, sent |-> <<r.attom_id>> ]
             ELSE [ raised |-> rest.raised,
                    results |-> << [ property_id |-> r.attom_id,
                                     ai_summary |-> called.result ] >>
                                    \o rest.results,
                    ai_logs |-> rest.ai_logs,
                    sent |-> <<r.attom_id>> \o rest.sent ]

\* The rows the query attom_id IN property_ids yields.
DbProps(property_ids) ==
    LET Asked(id) == id \in property_ids
    IN  SelectSeq(TaxAssessorRows, Asked)

\* /api/ai/batch for a request of property ids
ai_batch(logs, property_ids, input_schema, responses, db_ok) ==
    LET db_props == DbProps(property_ids)
        objs == [i \in DOMAIN db_props |-> BatchObj(db_props[i])]
        results == compute_batch_signals(objs).results
        done == batch_exchanges(logs, results, responses, input_schema, db_ok)
    IN  [ response |-> IF done.raised
                       THEN HTTPException(500, "Batch AI failed")
                       ELSE [ status |-> 200, results |-> done.results,
                              count |-> Len(done.results) ],
          ai_logs |-> done.ai_logs,
          sent |-> done.sent ]

\* The columns of the table scoutiq_ai_logs (models.AILogs).
AILogsColumns ==
    { "id", "property_id", "input_payload", "output_response", "classification",
      "confidence", "created_at", "endpoint_used", "processing_time_ms" }

Reverse(s) == [i \in DOMAIN s |-> s[Len(s) + 1 - i]]

\* GET /api/ai-logs: the query orders by AILogs.timestamp; an attribute the
\* class does not have raises AttributeError, which becomes a 500.
get_ai_logs(logs, property_id, limit) ==
    IF "timestamp" \notin AILogsColumns
    THEN HTTPException(500, "Failed to retrieve logs")
    ELSE LET Wanted(entry) ==
                 property_id \in {NONE, ""} \/ entry.property_id = property_id
             found == Take(Reverse(SelectSeq(logs, Wanted)), limit)
         IN  [status |-> 200, logs |-> found, count |-> Len(found)]

(***************************************************************************)
(* The client and its endpoints: requests arrive one after another; each   *)
(* action is one request, with the oracle's response, the configured input *)
(* schema and the outcome of the database write drawn from the sets below. *)
(***************************************************************************)

\* The number of exchanges with the oracle in a behaviour.
MaxCalls == 2

\* limit of GET /api/ai-logs
DefaultLimit == 100

FullData ==
    [ summary |-> "Good buy", classification |-> "Buy", confidence |-> Num(87),
      insights |-> List(<<"near transit">>), model |-> "scoutgpt" ]
PartialData == [status |-> "Hold", confidence |-> Null, insights |-> Null]
BadConfidence == [classification |-> "Buy", confidence |-> Text]

Responses ==
    { NetworkFailure,
      HttpResponse(503, EmptyBody),
      HttpResponse(200, EmptyBody),
      HttpResponse(200, JsonObject(FullData)),
      HttpResponse(200, JsonObject(PartialData)),
      HttpResponse(200, JsonObject(BadConfidence)),
      HttpResponse(200, JsonArray),
      HttpResponse(200, NotJson(TRUE)),
      HttpResponse(200, NotJson(FALSE)) }

\* No schema configured, a schema naming property_id, one that does not.
InputSchemas ==
    { {}, {"property_id", "address", "primary_valuation"},
      {"attom_id", "primary_valuation"} }

NoInput == [fn |-> "none"]

InitOracle ==
    /\ op = "idle"
    /\ input = NoInput
    /\ output = NoOutput
    /\ ai_logs = <<>>
    /\ exchanges = <<>>
    /\ LAST_QUERY_SIGNALS = <<>>
    /\ requests = <<>>

CallScoutgpt ==
    /\ op = "idle"
    /\ Len(exchanges) < MaxCalls
    /\ \E signal_batch \in {<<>>, <<PropDict("P1")>>},
          input_schema \in InputSchemas, response \in Responses,
          db_ok \in BOOLEAN :
          LET called == call_scoutgpt(ai_logs, signal_batch, input_schema,
                                      response, db_ok)
          IN  /\ input' = [ fn |-> "call_scoutgpt", signal_batch |-> signal_batch,
                            input_schema |-> input_schema,
                            response |-> response, db_ok |-> db_ok ]
              /\ output' = called.result
              /\ ai_logs' = called.ai_logs
              /\ exchanges' = Append(exchanges, SentId(signal_batch))
    /\ op' = "return"
    /\ UNCHANGED <<LAST_QUERY_SIGNALS, requests>>

\* A request the handler rejects before it reaches the oracle.
AiSummaryRejected ==
    /\ op = "idle"
    /\ \E property_id \in {"P9", MISSING} :
          /\ input' = [fn |-> "ai_summary", property_id |-> property_id]
          /\ output' = ai_summary(ai_logs, property_id, {}, NetworkFailure,
                                  TRUE).response
    /\ op' = "return"
    /\ UNCHANGED <<ai_logs, exchanges, LAST_QUERY_SIGNALS, requests>>

AiSummary ==
    /\ op = "idle"
    /\ Len(exchanges) < MaxCalls
    /\ \E property_id \in TaxAssessorIds,
          input_schema \in InputSchemas, response \in Responses,
          db_ok \in BOOLEAN :
          LET done == ai_summary(ai_logs, property_id, input_schema,
                                 response, db_ok)
          IN  /\ input' = [ fn |-> "ai_summary", property_id |-> property_id,
                            input_schema |-> input_schema,
                            response |-> response, db_ok |-> db_ok ]
              /\ output' = done.response
              /\ ai_logs' = done.ai_logs
              /\ exchanges' = exchanges \o done.sent
    /\ op' = "return"
    /\ UNCHANGED <<LAST_QUERY_SIGNALS, requests>>

\* A request none of whose ids is in the table: there is nothing to send.
AiBatchEmpty ==
    /\ op = "idle"
    /\ \E property_ids \in {{}, {"P9"}} :
          /\ input' = [fn |-> "ai_batch", property_ids |-> property_ids]
          /\ output' = ai_batch(ai_logs, property_ids, {}, <<>>, TRUE).response
    /\ op' = "return"
    /\ UNCHANGED <<ai_logs, exchanges, LAST_QUERY_SIGNALS, requests>>

AiBatch ==
    /\ op = "idle"
    /\ \E property_ids \in SUBSET (TaxAssessorIds \cup {"P9"}) :
          LET n == Len(DbProps(property_ids))
          IN  /\ n >= 1
              /\ Len(exchanges) + n <= MaxCalls
              /\ \E responses \in [1..n -> Responses],
                    input_schema \in InputSchemas, db_ok \in BOOLEAN :
                    LET done == ai_batch(ai_logs, property_ids, input_schema,
                                         responses, db_ok)
                    IN  /\ input' = [ fn |-> "ai_batch",
                                      property_ids |-> property_ids,
                                      input_schema |-> input_schema,
                                      responses |-> responses, db_ok |-> db_ok ]
                        /\ output' = done.response
                        /\ ai_logs' = done.ai_logs
                        /\ exchanges' = exchanges \o done.sent
    /\ op' = "return"
    /\ UNCHANGED <<LAST_QUERY_SIGNALS, requests>>

GetAiLogs ==
    /\ op = "idle"
    /\ \E property_id \in TaxAssessorIds \cup {NONE} :
          /\ input' = [fn |-> "get_ai_logs", property_id |-> property_id]
          /\ output' = get_ai_logs(ai_logs, property_id, DefaultLimit)
    /\ op' = "return"
    /\ UNCHANGED <<ai_logs, exchanges, LAST_QUERY_SIGNALS, requests>>

\* The response has gone out; the server waits for the next request.
Respond ==
    /\ op = "return"
    /\ op' = "idle"
    /\ input' = NoInput
    /\ output' = NoOutput
    /\ UNCHANGED <<ai_logs, exchanges, LAST_QUERY_SIGNALS, requests>>

NextOracle ==
    \/ CallScoutgpt
    \/ AiSummaryRejected
    \/ AiSummary
    \/ AiBatchEmpty
    \/ AiBatch
    \/ GetAiLogs
    \/ Respond

SpecOracle == InitOracle /\ [][NextOracle]_vars

(***************************************************************************)
(* Properties of the client and its log                                    *)
(***************************************************************************)

\* C13: call_scoutgpt propagates no exception: on a network failure or a
\* non-200 response it returns classification "Error" with confidence 0.0,
\* and on a 200 response it returns exactly the keys summary, classification,
\* confidence, insights.
C13_OracleFailureIsAResult ==
    (op = "return" /\ input.fn = "call_scoutgpt")
        => /\ ~output.raised
           /\ (\/ input.response.kind = "exception"
               \/ input.response.status_code # 200)
                 => /\ output.classification = "Error"
                    /\ output.confidence = 0
           /\ (input.response.kind = "response"
                 /\ input.response.status_code = 200)
                 => DOMAIN output = {"raised", "summary", "classification",
                                     "confidence", "insights"}

\* C14: every exchange of call_scoutgpt adds exactly one row to the log, so
\* the log has as many rows as there were exchanges.
C14_OneLogRowPerExchange == Len(ai_logs) = Len(exchanges)

\* C15: once a property has been sent to the oracle by /api/ai-summary or
\* /api/ai/batch, GET /api/ai-logs filtered by its id succeeds and returns a
\* row whose property_id is that id.
C15_LogsKeyedByPropertyId ==
    (/\ op = "return"
     /\ input.fn = "get_ai_logs"
     /\ \E i \in DOMAIN exchanges : exchanges[i] = input.property_id)
        => /\ output.status = 200
           /\ \E i \in DOMAIN output.logs :
                 output.logs[i].property_id = input.property_id

(***************************************************************************)
(* backend/signal_processor.py: the helpers applied to a DataFrame row.    *)
(*                                                                         *)
(* A row is a function from the columns it has (c in row) to their cells.  *)
(* A cell holding a number or a string that should be one is [k, v] with k *)
(* as above, plus "commas": a string such as "1,200,000".  A cell holding  *)
(* a name or a zone code is [k, s] with the characters s.                  *)
(***************************************************************************)

Commas(n) == [k |-> "commas", v |-> n]
NanName == [k |-> "nan", s |-> <<>>]

\* pd.notna(cell)
NotNa(cell) == cell.k \notin {"none", "nan"}

\* float(str(cell).replace(",", "").strip()) succeeds
FloatParses(cell) == cell.k \in {"num", "commas"}

RECURSIVE coalesce_numeric(_, _)
coalesce_numeric(row, candidates) ==
    IF candidates = <<>> THEN 0
    ELSE LET c == Head(candidates)
         IN  IF c \in DOMAIN row /\ NotNa(row[c]) /\ FloatParses(row[c])
             THEN row[c].v
             ELSE coalesce_numeric(row, Tail(candidates))

ValuationCandidates ==
    << "estimated_value", "EstimatedValue", "TaxMarketValueTotal",
       "tax_market_value_total", "valuation" >>

\* The candidates with the tax value ahead of the estimated values.
mut_primary_valuation(row) ==
    coalesce_numeric(row, << "tax_market_value_total", "estimated_value",
                             "EstimatedValue", "TaxMarketValueTotal", "valuation" >>)

primary_valuation(row) == coalesce_numeric(row, ValuationCandidates)

\* The chain with the Mid band closed at 750,000 from below only.
mut_valuation_band(val) ==
    IF val <= 0 THEN "Unknown"
    ELSE IF val < 250000 THEN "Low"
    ELSE IF val < 750000 THEN "Mid"
    ELSE "High"

valuation_band(val) ==
    IF val <= 0 THEN "Unknown"
    ELSE IF val < 250000 THEN "Low"
    ELSE IF val <= 750000 THEN "Mid"
    ELSE "High"

CORP_KEYWORDS ==
    { <<"L", "L", "C">>, <<"L", ".", "L", ".", "C">>, <<"I", "N", "C">>,
      <<"C", "O", "R", "P">>, <<"L", "P">>, <<"L", "L", "P">>,
      <<"C", "O", ".">>, <<"C", "O", "M", "P", "A", "N", "Y">>,
      <<"E", "N", "T", "E", "R", "P", "R", "I", "S", "E", "S">>,
      <<"H", "O", "L", "D", "I", "N", "G", "S">> }

OwnerCols ==
    <<"party_owner1_name_full", "party_owner2_name_full", "OwnerName", "OwnerName1">>

\* any(k in name for k in CORP_KEYWORDS) on the upper-cased cell of col
CorporateCell(row, col) ==
    /\ col \in DOMAIN row
    /\ NotNa(row[col])
    /\ \E keyword \in CORP_KEYWORDS : Contains(Upper(row[col].s), keyword)

ownership_type_from_names(row) ==
    IF \E i \in DOMAIN OwnerCols : CorporateCell(row, OwnerCols[i])
    THEN "LLC" ELSE "Individual"

FloodCandidates ==
    <<"flood_zone", "FloodZone", "fema_zone", "FEMAZone", "fema_floodplain">>

\* The upper-cased first candidate that is present and not NA; <<>> stands for
\* None as well, "not zone_val" treats both alike.
RECURSIVE zone_val(_, _)
zone_val(row, candidates) ==
    IF candidates = <<>> THEN <<>>
    ELSE LET c == Head(candidates)
         IN  IF c \in DOMAIN row /\ NotNa(row[c]) THEN Upper(row[c].s)
             ELSE zone_val(row, Tail(candidates))

\* any(k in zone for k in keywords)
AnyIn(zone, keywords) == \E keyword \in keywords : Contains(zone, keyword)

LowZoneKeywords == { <<"X">>, <<"M", "I", "N", "I", "M", "A", "L">> }
MediumZoneKeywords ==
    { <<"A", "E">>, <<"A">>, <<"0", ".", "2", "%">>, <<"5", "0", "0">> }
HighZoneKeywords ==
    { <<"F", "L", "O", "O", "D", "W", "A", "Y">>, <<"V", "E">>,
      <<"H", "I", "G", "H">> }

flood_risk(row) ==
    LET zone == zone_val(row, FloodCandidates)
    IN  IF zone = <<>> THEN "Unknown"
        ELSE IF AnyIn(zone, LowZoneKeywords) THEN "Low"
        ELSE IF AnyIn(zone, MediumZoneKeywords) THEN "Medium"
        ELSE IF AnyIn(zone, HighZoneKeywords) THEN "High"
        ELSE "Unknown"

\* _compute_ownership_signals with the AttributeError of None.upper()
ownership_signals(property_data) ==
    IF OwnershipRaises(property_data) THEN Raise("AttributeError")
    ELSE [raised |-> FALSE] @@ compute_ownership_signals(property_data)

\* A date cell: a string in one of the formats strptime is tried with
\* ("%Y-%m-%d", "%m/%d/%Y", "%Y/%m/%d"), naming the day numbered day.
DateStr(day) == [k |-> "date", v |-> day]

\* A datetime value.
DateTime(day) == [k |-> "datetime", v |-> day]

\* A number given with one decimal, in tenths (25 is 2.5).
Tenths(t) == [k |-> "tenths", v |-> t]

\* The string "inf", which float() reads as infinity.
Inf == [k |-> "inf", v |-> 0]

\* _parse_date: None, NaN, a blank string and a string no format reads (the
\* pandas parser coerces it to NaT) give None.
parse_date(value) ==
    IF value.k = "date" THEN DateTime(value.v) ELSE Null

DirectMaturityCols == <<"Mortgage1TermDate", "mortgage1_term_date", "loan_maturity">>

StartDateCols ==
    <<"InstrumentDate", "instrument_date", "loan_date", "RecordingDate",
      "recording_date">>

TermCols == <<"Mortgage1Term", "mortgage1_term", "loan_term_years">>

\* The first direct column that is present and not NA ends the search, whether
\* or not its value parses.
RECURSIVE direct_maturity(_, _)
direct_maturity(row, cols) ==
    IF cols = <<>> THEN Absent
    ELSE IF Head(cols) \in DOMAIN row /\ NotNa(row[Head(cols)])
         THEN row[Head(cols)]
         ELSE direct_maturity(row, Tail(cols))

\* The first start column whose value parses.
RECURSIVE start_date(_, _)
start_date(row, cols) ==
    IF cols = <<>> THEN Null
    ELSE IF /\ Head(cols) \in DOMAIN row
            /\ NotNa(row[Head(cols)])
            /\ parse_date(row[Head(cols)]) # Null
         THEN parse_date(row[Head(cols)])
         ELSE start_date(row, Tail(cols))

\* float(str(cell).strip()) succeeds
TermParses(cell) == cell.k \in {"num", "tenths", "inf"}

\* The first term column float() accepts, zero or negative included.
RECURSIVE term_years(_, _)
term_years(row, cols) ==
    IF cols = <<>> THEN Null
    ELSE IF /\ Head(cols) \in DOMAIN row
            /\ NotNa(row[Head(cols)])
            /\ TermParses(row[Head(cols)])
         THEN row[Head(cols)]
         ELSE term_years(row, Tail(cols))

\* term_years and term_years > 0
TermPositive(term) == term.k = "inf" \/ (term.k \in {"num", "tenths"} /\ term.v > 0)

\* int(term_years * 365)
TermDays(term) == IF term.k = "tenths" THEN (term.v * 365) \div 10 ELSE term.v * 365

\* _loan_maturity; int(inf) raises OverflowError.
loan_maturity(row) ==
    LET direct == direct_maturity(row, DirectMaturityCols)
        start == start_date(row, StartDateCols)
        term == term_years(row, TermCols)
    IN  IF direct # Absent
        THEN [raised |-> FALSE, value |-> parse_date(direct)]
        ELSE IF start # Null /\ term # Null /\ TermPositive(term)
        THEN IF term.k = "inf" THEN Raise("OverflowError")
             ELSE [raised |-> FALSE, value |-> DateTime(start.v + TermDays(term))]
        ELSE [raised |-> FALSE, value |-> Null]

\* A float cell with a whole value (1999.0): str() gives "1999.0", which int()
\* rejects.
Float(n) == [k |-> "float", v |-> n]

YearCols == <<"YearBuilt", "year_built", "YEAR_BUILT", "built_year">>

\* int(str(cell).strip()) succeeds
IntParses(cell) == cell.k = "num"

\* _property_age: the first year column that is present, not NA, reads as an
\* integer and lies in (1800, current year]; a column that fails any of these
\* is passed over.
RECURSIVE property_age(_, _)
property_age(row, cols) ==
    IF cols = <<>> THEN Null
    ELSE LET col == Head(cols)
         IN  IF /\ col \in DOMAIN row
                /\ NotNa(row[col])
                /\ IntParses(row[col])
                /\ 1800 < row[col].v
                /\ row[col].v <= CurrentYear
             THEN Num(CurrentYear - row[col].v)
             ELSE property_age(row, Tail(cols))

\* _compute_risk_signals with the TypeError of None > 30
risk_signals(property_data) ==
    IF RiskRaises(property_data) THEN Raise("TypeError")
    ELSE [raised |-> FALSE] @@ compute_risk_signals(property_data)

(***************************************************************************)
(* The helpers one at a time: a call is drawn, the helper is applied.      *)
(***************************************************************************)

\* The row with the cells of full that are not Absent.
RowOf(full) ==
    [c \in {c \in DOMAIN full : full[c] # Absent /\ full[c] # NoName} |-> full[c]]

BandProbes ==
    {-1, 0, 1, 100000, 249999, 250000, 500000, 750000, 750001, 900000}

\* Records for _compute_valuation_signals: values on both sides of every
\* threshold of either banding, zero and malformed values ahead of them.
ValuationRecords ==
    { [ estimated_value |-> ev, tax_market_value_total |-> tv,
        tax_assessed_value_total |-> av, area_lot_sf |-> Num(5000) ] :
      ev \in {Absent, Null, Blank, Text, Num(0), Num(300000)},
      tv \in {Absent, Text, Num(0)}
              \cup {Num(n) : n \in {100000, 199999, 200000, 249999, 250000,
                                    499999, 500000, 750000, 750001, 900000,
                                    999999, 1000000}},
      av \in {Absent, Num(0), Num(100000)} }

ValuationRows ==
    { RowOf([ estimated_value |-> c1, EstimatedValue |-> c2,
              TaxMarketValueTotal |-> c3, tax_market_value_total |-> c4,
              valuation |-> c5 ]) :
      c1 \in {Absent, Null, NaN, Blank, Text, Num(0), Num(300000)},
      c2 \in {Absent, Num(410000)},
      c3 \in {Absent, Text, Num(520000)},
      c4 \in {Absent, NaN, Commas(1200000)},
      c5 \in {Absent, Num(0), Num(75000)} }

VincentPrice == Name(<<"V", "i", "n", "c", "e", "n", "t">>)
SmithCo == Name(<<"S", "m", "i", "t", "h", " ", "&", " ", "C", "o", ".">>)

OwnerRows ==
    { RowOf([ party_owner1_name_full |-> o1, party_owner2_name_full |-> o2,
              OwnerName |-> o3, OwnerName1 |-> NoName ]) :
      o1 \in {NoName, NanName, JohnSmith, AcmeLlc, VincentPrice},
      o2 \in {NoName, NanName, JohnSmith, BigLp},
      o3 \in {NoName, SmithCo} }

OwnerRecords ==
    { [ party_owner1_name_full |-> o1, party_owner2_name_full |-> o2,
        contact_owner_mail_address_full |-> mail,
        property_address_full |-> "1 MAIN ST",
        status_owner_occupied_flag |-> "1" ] :
      o1 \in {NoName, NullName, JohnSmith, AcmeLlc, VincentPrice},
      o2 \in {NoName, NullName, JohnSmith, BigLp},
      mail \in {MISSING, "PO BOX 9"} }

ZoneCodes ==
    { Name(<<"X">>),
      Name(<<"x">>),
      Name(<<"A", "E">>),
      Name(<<"A">>),
      Name(<<"V", "E">>),
      Name(<<"F", "L", "O", "O", "D", "W", "A", "Y">>),
      Name(<<"H", "I", "G", "H">>),
      Name(<<"0", ".", "2", "%", " ", "A", "N", "N", "U", "A", "L">>),
      Name(<<"5", "0", "0", " ", "Y", "R">>),
      Name(<<"M", "I", "N", "I", "M", "A", "L">>),
      Name(<<"D">>),
      Name(<<"Z", "o", "n", "e", " ", "v", "e">>),
      Name(<<"S", "H", "A", "D", "E", "D", " ", "X">>),
      Name(<<>>) }

FloodRows ==
    { RowOf([ flood_zone |-> z1, FloodZone |-> z2, fema_zone |-> z3 ]) :
      z1 \in ZoneCodes \cup {NoName, NanName},
      z2 \in {NoName, Name(<<"V", "E">>)},
      z3 \in {NoName, Name(<<"X">>)} }

\* Coordinates in ten-thousandths of a degree: none, zero, a positive
\* longitude, the centre, and points on either side of 0.05 and 0.1 degrees
\* from it, along an axis and off it.
FloodCoordinates ==
    { <<Null, Null>>, <<Num(0), Num(0)>>, <<Num(302672), Num(977431)>>,
      <<Num(302672), Num(-977431)>>,
      <<Num(303171), Num(-977431)>>, <<Num(303173), Num(-977431)>>,
      <<Num(302672), Num(-976432)>>, <<Num(302672), Num(-976430)>>,
      <<Num(302972), Num(-977032)>>, <<Num(303273), Num(-976631)>> }

FloodRecords ==
    { [ property_latitude |-> c[1], property_longitude |-> c[2],
        tax_market_value_total |-> tv, year_built |-> yb ] :
      c \in FloodCoordinates,
      tv \in {Absent, Text} \cup {Num(n) : n \in {200000, 200001, 500000,
                                                  500001, 1000000, 1000001}},
      yb \in {Absent, Text, Num(1700)}
              \cup {Num(n) : n \in {1985, 1986, 1995, 1996, 2020}} }

\* Rows for _loan_maturity: a direct field that is absent, NA, blank,
\* unreadable or a date; start dates that do and do not parse; terms that are
\* absent, NA, unreadable, zero, negative, whole, fractional and infinite.
LoanRows ==
    { RowOf([ Mortgage1TermDate |-> d1, loan_maturity |-> d3,
              InstrumentDate |-> s1, loan_date |-> s3, RecordingDate |-> s4,
              Mortgage1Term |-> t1, loan_term_years |-> t3 ]) :
      d1 \in {Absent, Null, Blank, Text, DateStr(29000)},
      d3 \in {Absent, DateStr(27000)},
      s1 \in {Absent, NaN, Text, DateStr(18000)},
      s3 \in {Absent, DateStr(17000)},
      s4 \in {Absent, DateStr(18100)},
      t1 \in {Absent, Null, Text, Num(0), Num(-5), Num(30), Tenths(25), Inf},
      t3 \in {Absent, Num(15)} }

\* Years on both sides of 1800 and of the current year, and cells that are not
\* an integer.
YearCells ==
    {Absent, Null, NaN, Blank, Text, Float(1999)}
        \cup {Num(n) : n \in {0, 1800, 1801, 1990, 2026, 2027}}

\* Rows for _property_age.
AgeRows ==
    { RowOf([YearBuilt |-> y1, year_built |-> y2, built_year |-> y4]) :
      y1 \in YearCells, y2 \in YearCells, y4 \in {Absent, Num(2000)} }

\* Records for _compute_risk_signals.
RiskRecords ==
    { [ property_latitude |-> Num(302672), property_longitude |-> Num(-977431),
        tax_market_value_total |-> tv, year_built |-> yb ] :
      tv \in {Absent, Num(300000)}, yb \in YearCells }

HelperCalls ==
    [fn : {"valuation_band"}, val : BandProbes]
        \cup [fn : {"compute_valuation_signals"}, record : ValuationRecords]
        \cup [fn : {"primary_valuation"}, row : ValuationRows]
        \cup [fn : {"ownership_type_from_names"}, row : OwnerRows]
        \cup [fn : {"compute_ownership_signals"}, record : OwnerRecords]
        \cup [fn : {"flood_risk"}, row : FloodRows]
        \cup [fn : {"compute_flood_risk"}, record : FloodRecords]
        \cup [fn : {"loan_maturity"}, row : LoanRows]
        \cup [fn : {"property_age"}, row : AgeRows]
        \cup [fn : {"compute_risk_signals"}, record : RiskRecords]

InitHelpers ==
    /\ op = "call"
    /\ input \in HelperCalls
    /\ output = NoOutput
    /\ ai_logs = <<>>
    /\ exchanges = <<>>
    /\ LAST_QUERY_SIGNALS = <<>>
    /\ requests = <<>>

ValuationBand ==
    /\ op = "call"
    /\ input.fn = "valuation_band"
    /\ output' = [raised |-> FALSE, value |-> valuation_band(input.val)]
    /\ op' = "return"
    /\ UNCHANGED <<input, ai_logs, exchanges, LAST_QUERY_SIGNALS, requests>>

ComputeValuationSignals ==
    /\ op = "call"
    /\ input.fn = "compute_valuation_signals"
    /\ output' = [raised |-> FALSE, value |-> compute_valuation_signals(input.record)]
    /\ op' = "return"
    /\ UNCHANGED <<input, ai_logs, exchanges, LAST_QUERY_SIGNALS, requests>>

PrimaryValuation ==
    /\ op = "call"
    /\ input.fn = "primary_valuation"
    /\ output' = [raised |-> FALSE, value |-> primary_valuation(input.row)]
    /\ op' = "return"
    /\ UNCHANGED <<input, ai_logs, exchanges, LAST_QUERY_SIGNALS, requests>>

OwnershipTypeFromNames ==
    /\ op = "call"
    /\ input.fn = "ownership_type_from_names"
    /\ output' = [raised |-> FALSE, value |-> ownership_type_from_names(input.row)]
    /\ op' = "return"
    /\ UNCHANGED <<input, ai_logs, exchanges, LAST_QUERY_SIGNALS, requests>>

ComputeOwnershipSignals ==
    /\ op = "call"
    /\ input.fn = "compute_ownership_signals"
    /\ output' = ownership_signals(input.record)
    /\ op' = "return"
    /\ UNCHANGED <<input, ai_logs, exchanges, LAST_QUERY_SIGNALS, requests>>

FloodRisk ==
    /\ op = "call"
    /\ input.fn = "flood_risk"
    /\ output' = [raised |-> FALSE, value |-> flood_risk(input.row)]
    /\ op' = "return"
    /\ UNCHANGED <<input, ai_logs, exchanges, LAST_QUERY_SIGNALS, requests>>

ComputeFloodRisk ==
    /\ op = "call"
    /\ input.fn = "compute_flood_risk"
    /\ output' = [raised |-> FALSE, value |-> compute_flood_risk(input.record)]
    /\ op' = "return"
    /\ UNCHANGED <<input, ai_logs, exchanges, LAST_QUERY_SIGNALS, requests>>

LoanMaturity ==
    /\ op = "call"
    /\ input.fn = "loan_maturity"
    /\ output' = loan_maturity(input.row)
    /\ op' = "return"
    /\ UNCHANGED <<input, ai_logs, exchanges, LAST_QUERY_SIGNALS, requests>>

PropertyAge ==
    /\ op = "call"
    /\ input.fn = "property_age"
    /\ output' = [raised |-> FALSE, value |-> property_age(input.row, YearCols)]
    /\ op' = "return"
    /\ UNCHANGED <<input, ai_logs, exchanges, LAST_QUERY_SIGNALS, requests>>

ComputeRiskSignals ==
    /\ op = "call"
    /\ input.fn = "compute_risk_signals"
    /\ output' = risk_signals(input.record)
    /\ op' = "return"
    /\ UNCHANGED <<input, ai_logs, exchanges, LAST_QUERY_SIGNALS, requests>>

NextHelpers ==
    \/ ValuationBand
    \/ ComputeValuationSignals
    \/ PrimaryValuation
    \/ OwnershipTypeFromNames
    \/ ComputeOwnershipSignals
    \/ FloodRisk
    \/ ComputeFloodRisk
    \/ LoanMaturity
    \/ PropertyAge
    \/ ComputeRiskSignals

SpecHelpers == InitHelpers /\ [][NextHelpers]_vars

\* The helper fn has returned.
Applied(fn) == op = "return" /\ input.fn = fn

(***************************************************************************)
(* Properties of the helpers                                               *)
(***************************************************************************)

\* The order of the bands of either banding.
BandRank(band) ==
    CASE band = "Unknown" -> 0
      [] band = "Low" -> 1
      [] band \in {"Mid", "Medium"} -> 2
      [] band = "High" -> 3
      [] band = "Premium" -> 4

\* The banding by 250,000 and 750,000.
BandBy250And750(v, band) ==
    /\ (v <= 0) => band = "Unknown"
    /\ (0 < v /\ v < 250000) => band = "Low"
    /\ (250000 <= v /\ v <= 750000) => band = "Mid"
    /\ (v > 750000) => band = "High"

\* The banding by 200,000, 500,000 and 1,000,000.
BandBy200And500And1000(v, band) ==
    /\ (v <= 0) => band = "Unknown"
    /\ (0 < v /\ v < 200000) => band = "Low"
    /\ (200000 <= v /\ v < 500000) => band = "Medium"
    /\ (500000 <= v /\ v < 1000000) => band = "High"
    /\ (v >= 1000000) => band = "Premium"

\* C16, as stated: the valuation band is Unknown for v <= 0, Low below
\* 250,000, Mid from 250,000 to 750,000 and High above, wherever a band is
\* derived from a primary valuation.
C16_BandByClaimedThresholds ==
    /\ Applied("valuation_band") => BandBy250And750(input.val, output.value)
    /\ Applied("compute_valuation_signals")
          => BandBy250And750(output.value.primary_valuation,
                             output.value.valuation_band)

\* C16, amended: _valuation_band bands by 250,000 and 750,000 into Unknown,
\* Low, Mid, High; _compute_valuation_signals bands by 200,000, 500,000 and
\* 1,000,000 into Unknown, Low, Medium, High, Premium.  Either band depends on
\* the primary valuation alone and never decreases as the valuation grows.
C16_BandPerVariant ==
    /\ Applied("valuation_band")
          => /\ BandBy250And750(input.val, output.value)
             /\ \A w \in BandProbes :
                   w <= input.val
                       => BandRank(valuation_band(w)) <= BandRank(output.value)
    /\ Applied("compute_valuation_signals")
          => LET v == output.value.primary_valuation
             IN  /\ BandBy200And500And1000(v, output.value.valuation_band)
                 /\ \A w \in BandProbes :
                       w <= v => BandRank(SignalsValuationBand(w))
                                    <= BandRank(output.value.valuation_band)

\* A valuation of 500,000 banded High by _compute_valuation_signals.
C16_HalfMillionIsHigh ==
    /\ Applied("compute_valuation_signals")
    /\ output.value.primary_valuation = 500000
    /\ output.value.valuation_band = "High"

\* The cells of the candidates, in order; Absent for a column the row lacks.
CellsOf(row, candidates) ==
    [i \in DOMAIN candidates |->
        IF candidates[i] \in DOMAIN row THEN row[candidates[i]] ELSE Absent]

\* Present, not null, not blank, and a number or a string that reads as one.
Coercible(cell) == cell.k \in {"num", "commas"}

\* A number other than zero.
NonZeroNumber(cell) == cell.k = "num" /\ cell.v # 0

\* result is the number of the first cell whose index is in usable, 0 when
\* usable is empty.
FirstUsable(cells, usable, result) ==
    \/ \E i \in usable :
          /\ \A j \in usable : i <= j
          /\ result = cells[i].v
    \/ /\ usable = {}
       /\ result = 0

FirstCoercible(cells, result) ==
    FirstUsable(cells, {i \in DOMAIN cells : Coercible(cells[i])}, result)

FirstNonZeroNumber(cells, result) ==
    FirstUsable(cells, {i \in DOMAIN cells : NonZeroNumber(cells[i])}, result)

SignalsCandidates ==
    <<"estimated_value", "tax_market_value_total", "tax_assessed_value_total">>

\* C17, as stated: the primary valuation is the first candidate, in priority
\* order, that is present, not null, not blank and coercible to a number; a
\* candidate that fails coercion is skipped; 0.0 when there is none.
C17_FirstCoercibleCandidate ==
    /\ Applied("primary_valuation")
          => FirstCoercible(CellsOf(input.row, ValuationCandidates),
                            output.value)
    /\ Applied("compute_valuation_signals")
          => FirstCoercible(CellsOf(input.record, SignalsCandidates),
                            output.value.primary_valuation)

\* C17, amended: _primary_valuation returns the first coercible candidate, a
\* zero included; _compute_valuation_signals returns the first candidate that
\* is a number other than zero, so a candidate of value 0 is skipped as well.
\* Either returns 0.0 when no candidate qualifies.
C17_FirstCandidatePerVariant ==
    /\ Applied("primary_valuation")
          => FirstCoercible(CellsOf(input.row, ValuationCandidates),
                            output.value)
    /\ Applied("compute_valuation_signals")
          => FirstNonZeroNumber(CellsOf(input.record, SignalsCandidates),
                                output.value.primary_valuation)

\* An estimated value of 0 passed over for the tax value.
C17_ZeroPassedOver ==
    /\ Applied("compute_valuation_signals")
    /\ input.record.estimated_value = Num(0)
    /\ input.record.tax_market_value_total = Num(100000)
    /\ output.value.primary_valuation = 100000

\* C18, as stated: ownership_type is LLC when the primary owner name holds a
\* corporate keyword, whatever the case of its letters, otherwise LLC when the
\* secondary owner name holds one, otherwise Individual; it is always
\* Individual or LLC.
C18_OwnershipIndividualOrLlc ==
    /\ Applied("ownership_type_from_names")
          => /\ output.value \in {"Individual", "LLC"}
             /\ output.value = "LLC"
                   <=> \E i \in DOMAIN OwnerCols :
                          CorporateCell(input.row, OwnerCols[i])
    /\ Applied("compute_ownership_signals")
          => /\ ~output.raised
             /\ output.ownership_type \in {"Individual", "LLC"}
             /\ output.ownership_type = "LLC"
                   <=> \/ HasKeyword(NameChars(input.record.party_owner1_name_full))
                       \/ HasKeyword(NameChars(input.record.party_owner2_name_full))

\* The tiers the keywords a zone code holds stand for.
ZoneTiers(zone) ==
    {tier \in {"Low", "Medium", "High"} :
        \/ tier = "Low" /\ AnyIn(zone, LowZoneKeywords)
        \/ tier = "Medium" /\ AnyIn(zone, MediumZoneKeywords)
        \/ tier = "High" /\ AnyIn(zone, HighZoneKeywords)}

\* C19, as stated: a zone code holding X or MINIMAL gives Low, one holding AE,
\* A, 0.2% or 500 gives Medium, one holding FLOODWAY, VE or HIGH gives High,
\* any other code or none gives Unknown.  Read with the benefit of the doubt:
\* a code holding keywords of several tiers may get any of them, a code that
\* is itself a keyword gets the tier of that keyword.
C19_ZoneCodeTiers ==
    Applied("flood_risk")
        => LET zone == zone_val(input.row, FloodCandidates)
           IN  /\ ZoneTiers(zone) = {} => output.value = "Unknown"
               /\ ZoneTiers(zone) # {} => output.value \in ZoneTiers(zone)
               /\ zone \in LowZoneKeywords => output.value = "Low"
               /\ zone \in MediumZoneKeywords => output.value = "Medium"
               /\ zone \in HighZoneKeywords => output.value = "High"

\* C20: the flood risk _compute_flood_risk returns is given by latitude,
\* longitude, valuation and age through the decision table: with valid
\* coordinates, less than 0.05 degrees from the centre High above 500,000,
\* Medium above 200,000, else Low; less than 0.1 degrees Medium for an age
\* above 30, else Low; farther Low; with invalid coordinates Medium for an
\* age above 40, else High above 1,000,000, else Low.
C20_FloodHeuristicTable ==
    Applied("compute_flood_risk")
        => LET record == input.record
               lat == safe_float(record.property_latitude)
               lng == safe_float(record.property_longitude)
               valuation == safe_float(record.tax_market_value_total)
               age == IF YearValid(record.year_built)
                      THEN CurrentYear - record.year_built.v ELSE 0
               valid == lat > 0 /\ lng < 0
               d2 == (lat - CenterLat) * (lat - CenterLat)
                       + (lng - CenterLng) * (lng - CenterLng)
               within005 == d2 < 500 * 500
               within01 == d2 < 1000 * 1000
               risk == output.value
           IN  /\ (valid /\ within005 /\ valuation > 500000) => risk = "High"
               /\ (valid /\ within005 /\ valuation > 200000
                     /\ valuation <= 500000) => risk = "Medium"
               /\ (valid /\ within005 /\ valuation <= 200000) => risk = "Low"
               /\ (valid /\ ~within005 /\ within01 /\ age > 30) => risk = "Medium"
               /\ (valid /\ ~within005 /\ within01 /\ age <= 30) => risk = "Low"
               /\ (valid /\ ~within01) => risk = "Low"
               /\ (~valid /\ age > 40) => risk = "Medium"
               /\ (~valid /\ age <= 40 /\ valuation > 1000000) => risk = "High"
               /\ (~valid /\ age <= 40 /\ valuation <= 1000000) => risk = "Low"

\* No valid coordinates, an age of 31..40 and a valuation above 1,000,000:
\* the age does not reach the fallback's limit, the valuation decides.
C20_FallbackByValuation ==
    /\ Applied("compute_flood_risk")
    /\ input.record.property_latitude = Null
    /\ input.record.year_built = Num(1995)
    /\ input.record.tax_market_value_total = Num(1000001)
    /\ output.value = "High"

\* The first cell of cells that holds a readable date, Null when none does.
FirstDate(cells) ==
    LET dated == {i \in DOMAIN cells : cells[i].k = "date"}
    IN  IF dated = {} THEN Null
        ELSE DateTime(cells[CHOOSE i \in dated : \A j \in dated : i <= j].v)

\* C21, as stated: loan_maturity is the date of the direct maturity field when
\* one is available; otherwise the start date (the instrument date when it is
\* readable, else the loan date, else the recording date) plus
\* term_years * 365 days, in whole days, when there is a start date and the
\* term is a positive number; null in every other case.
C21_LoanMaturityDirectElseDerived ==
    Applied("loan_maturity") =>
        LET direct == FirstDate(CellsOf(input.row, DirectMaturityCols))
            start == FirstDate(CellsOf(input.row, StartDateCols))
            term == term_years(input.row, TermCols)
        IN  /\ ~output.raised
            /\ output.value =
                  IF direct # Null THEN direct
                  ELSE IF start # Null /\ term.k \in {"num", "tenths"} /\ term.v > 0
                       THEN DateTime(start.v + TermDays(term))
                       ELSE Null

\* The cells of cells that read as an integer year in (1800, current year].
ValidYears(cells) ==
    {i \in DOMAIN cells : cells[i].k = "num" /\ 1800 < cells[i].v /\ cells[i].v <= CurrentYear}

\* age is the current year minus the first valid year of cells, null when no
\* cell holds a valid year.
AgeOfYear(cells, age) ==
    LET valid == ValidYears(cells)
    IN  IF valid = {} THEN age = Null
        ELSE age = Num(CurrentYear - cells[CHOOSE i \in valid : \A j \in valid : i <= j].v)

\* C22, as stated: property_age is the current year minus the year built
\* exactly when the year built reads as an integer with
\* 1800 < year <= current year; for a missing, unreadable or out-of-range year
\* the derived property_age is null.
C22_PropertyAgeFromValidYear ==
    /\ Applied("property_age")
          => AgeOfYear(CellsOf(input.row, YearCols), output.value)
    /\ Applied("compute_risk_signals")
          => /\ ~output.raised
             /\ AgeOfYear(<<input.record.year_built>>, output.property_age)

(***************************************************************************)
(* Properties of the market narrative and of the insights                  *)
(***************************************************************************)

\* C23, as stated: for a batch of n >= 1 records the market narrative is
\* "strong investment market" when more than 50% of the records are Buy,
\* "moderately favorable market" when more than 33% are Buy, and "cautious
\* market environment" otherwise.
C23_SentimentBy50And33Percent ==
    (Returned("analyze_batch") /\ Len(input.properties) >= 1)
        => LET n == Len(input.properties)
               buy == output.breakdown.buy_opportunities
           IN  output.summary.sentiment =
                   IF 100 * buy > 50 * n THEN "strong investment market"
                   ELSE IF 100 * buy > 33 * n THEN "moderately favorable market"
                   ELSE "cautious market environment"

\* C23, amended: the narrative is "strong investment market" when more than
\* half of the records are Buy, "moderately favorable market" when more than
\* a third are Buy, and "cautious market environment" otherwise; a batch with
\* exactly a third of Buy records is cautious.
C23_SentimentByHalfAndThird ==
    (Returned("analyze_batch") /\ Len(input.properties) >= 1)
        => LET n == Len(input.properties)
               buy == output.breakdown.buy_opportunities
               sentiment == output.summary.sentiment
           IN  /\ sentiment = "strong investment market" <=> 2 * buy > n
               /\ sentiment = "moderately favorable market"
                      <=> (2 * buy <= n /\ 3 * buy > n)
               /\ sentiment = "cautious market environment" <=> 3 * buy <= n
               /\ output.summary.buy_count = buy
               /\ output.summary.total = n

\* One Buy among three records: 33.3% Buy, reported as cautious.
C23_OneBuyInThree ==
    /\ Returned("analyze_batch")
    /\ Len(input.properties) = 3
    /\ output.breakdown.buy_opportunities = 1
    /\ output.summary.sentiment = "cautious market environment"

(***************************************************************************)
(* Derivation at a clock reading.  Sale dates are day numbers counted from *)
(* the first day of the current year; every reading of the clock lies in   *)
(* the current year.                                                       *)
(***************************************************************************)

\* _classification_hint on a row that holds the derived columns; a NaN or None
\* age adds nothing.
classification_hint(row) ==
    LET val == row.primary_valuation
        age == row.property_age
        ownership == row.ownership_type
        by_val == IF val > 0
                  THEN IF val < 250000 THEN 15
                       ELSE IF val > 750000 THEN -10
                       ELSE 5
                  ELSE 0
        by_age == IF age.k = "num"
                  THEN IF 5 <= age.v /\ age.v <= 20 THEN 20
                       ELSE IF age.v < 5 THEN 10
                       ELSE IF age.v > 40 THEN -15
                       ELSE 0
                  ELSE 0
        by_owner == IF ownership \in {"LLC", "Corporation"} THEN 10 ELSE 0
        score == 50 + by_val + by_age + by_owner
    IN  IF score >= 70 THEN "Buy"
        ELSE IF score >= 50 THEN "Hold"
        ELSE "Watch"

\* The columns compute_signals assigns to one row of out, in the order of the
\* assignments; each helper sees the columns assigned before it.
derived_row(row) ==
    LET r1 == [primary_valuation |-> primary_valuation(row)] @@ row
        r2 == [valuation_band |-> valuation_band(r1.primary_valuation)] @@ r1
        r3 == [ownership_type |-> ownership_type_from_names(r2)] @@ r2
        r4 == [loan_maturity |-> loan_maturity(r3).value] @@ r3
        r5 == [flood_risk |-> flood_risk(r4)] @@ r4
        r6 == [property_age |-> property_age(r5, YearCols)] @@ r5
    IN  [classification_hint |-> classification_hint(r6)] @@ r6

\* compute_signals without df.copy(): the columns are assigned to df itself.
mut_compute_signals(df) ==
    IF df = <<>> THEN [raised |-> FALSE, df |-> df, out |-> df]
    ELSE IF \E i \in DOMAIN df : loan_maturity(df[i]).raised
    THEN [raised |-> TRUE, exc |-> "OverflowError", df |-> df]
    ELSE LET out == [i \in DOMAIN df |-> derived_row(df[i])]
         IN  [raised |-> FALSE, df |-> out, out |-> out]

\* compute_signals: df is the frame the caller holds after the call, out the
\* frame returned.  An empty frame is returned as it is; otherwise the columns
\* are assigned to a copy.  An exception of a helper leaves the function.
compute_signals(df) ==
    IF df = <<>> THEN [raised |-> FALSE, df |-> df, out |-> df]
    ELSE IF \E i \in DOMAIN df : loan_maturity(df[i]).raised
    THEN [raised |-> TRUE, exc |-> "OverflowError", df |-> df]
    ELSE [raised |-> FALSE, df |-> df,
          out |-> [i \in DOMAIN df |-> derived_row(df[i])]]

\* (datetime.now() - pd.to_datetime(last_sale_date)).days
DaysSince(last_sale_date, now) ==
    IF last_sale_date.k = "date" THEN Num(now - last_sale_date.v)
    ELSE last_sale_date

\* The record with its sale date as the days elapsed at the reading now.
SeenAt(property_data, now) ==
    [property_data EXCEPT
        !.assessor_last_sale_date = DaysSince(@, now)]

\* The combined record carries the sale date as the caller gave it.
WithSaleDate(combined, property_data) ==
    [key \in DOMAIN combined |->
        IF key \in {"assessor_last_sale_date", "last_sale_date"}
        THEN property_data.assessor_last_sale_date
        ELSE combined[key]]

\* compute_batch_signals when datetime.now() reads now.
compute_batch_signals_at(properties, now) ==
    LET seen == [i \in DOMAIN properties |-> SeenAt(properties[i], now)]
        results == compute_batch_signals(seen).results
    IN  [raised |-> FALSE,
         results |-> [i \in DOMAIN properties |->
                         WithSaleDate(results[i], properties[i])]]

\* Readings of the clock: two days running of the current year.
Clock == {9, 10}

MaxRows == 2

\* Rows of a frame: valuations, owners, years, zones and loan fields of every
\* kind the helpers tell apart.
SignalRows ==
    { RowOf([ estimated_value |-> Num(200000), party_owner1_name_full |-> AcmeLlc,
              YearBuilt |-> Num(2010), flood_zone |-> Name(<<"X">>),
              InstrumentDate |-> DateStr(-2000), Mortgage1Term |-> Num(30),
              Mortgage1TermDate |-> Absent ]),
      RowOf([ estimated_value |-> Commas(1200000), party_owner1_name_full |-> JohnSmith,
              YearBuilt |-> Num(1970), flood_zone |-> Name(<<"V", "E">>),
              InstrumentDate |-> Text, Mortgage1Term |-> Tenths(25),
              Mortgage1TermDate |-> DateStr(5000) ]),
      RowOf([ estimated_value |-> Num(500000), party_owner1_name_full |-> NanName,
              YearBuilt |-> Float(1999), flood_zone |-> NanName,
              InstrumentDate |-> DateStr(-100), Mortgage1Term |-> Num(0),
              Mortgage1TermDate |-> Blank ]),
      RowOf([ estimated_value |-> Text, party_owner1_name_full |-> JohnSmith,
              YearBuilt |-> Num(2024), flood_zone |-> Name(<<"A", "E">>),
              InstrumentDate |-> DateStr(-100), Mortgage1Term |-> Inf,
              Mortgage1TermDate |-> NaN ]),
      RowOf([ estimated_value |-> NaN, party_owner1_name_full |-> NanName,
              YearBuilt |-> NaN, flood_zone |-> NanName,
              InstrumentDate |-> NaN, Mortgage1Term |-> NaN,
              Mortgage1TermDate |-> NaN ]) }

\* Records of a batch with the sale date as a date: sold 364 or 365 days before
\* the first reading of the clock (one of them by an absentee owner, in the
\* Medium band), one without a year built, which fails to derive, and one
\* without a readable sale date.
DatedRecord(tv, mail, yb, sd) ==
    [BatchRecord(Null, tv, JohnSmith, mail, yb, Null)
        EXCEPT !.assessor_last_sale_date = sd,
               !.assessor_last_sale_amount = Num(250000)]

DatedRecords ==
    { DatedRecord(Num(600000), MISSING, Num(1980), DateStr(-355)),
      DatedRecord(Num(300000), "PO BOX 9", Num(1980), DateStr(-355)),
      DatedRecord(Num(600000), MISSING, Num(2010), DateStr(-356)),
      DatedRecord(Num(600000), MISSING, Null, DateStr(-355)),
      DatedRecord(Num(600000), MISSING, Num(1980), Text) }

RederiveCalls ==
    [fn : {"compute_signals"}, df : SeqsUpTo(SignalRows, MaxRows)]
        \cup [fn : {"compute_batch_signals"},
              properties : SeqsUpTo(DatedRecords, MaxRows)]

InitRederive ==
    /\ op = "call"
    /\ input \in RederiveCalls
    /\ output = NoOutput
    /\ ai_logs = <<>>
    /\ exchanges = <<>>
    /\ LAST_QUERY_SIGNALS = <<>>
    /\ requests = <<>>

\* The first derivation: the clock is read, the result kept.
DeriveSignals ==
    /\ op = "call"
    /\ input.fn = "compute_signals"
    /\ \E now \in Clock :
          LET result == compute_signals(input.df)
          IN  /\ input' = [input EXCEPT !.df = result.df]
              /\ output' = [raised |-> result.raised, now1 |-> now,
                            first |-> Without(result, {"df"})]
    /\ op' = "once"
    /\ UNCHANGED <<ai_logs, exchanges, LAST_QUERY_SIGNALS, requests>>

\* The second derivation from the frame the caller holds.
DeriveSignalsAgain ==
    /\ op = "once"
    /\ input.fn = "compute_signals"
    /\ \E now \in Clock :
          LET result == compute_signals(input.df)
          IN  /\ input' = [input EXCEPT !.df = result.df]
              /\ output' = [second |-> Without(result, {"df"}), now2 |-> now]
                               @@ output
    /\ op' = "return"
    /\ UNCHANGED <<ai_logs, exchanges, LAST_QUERY_SIGNALS, requests>>

DeriveBatch ==
    /\ op = "call"
    /\ input.fn = "compute_batch_signals"
    /\ \E now \in Clock :
          output' = [raised |-> FALSE, now1 |-> now,
                     first |-> compute_batch_signals_at(input.properties, now)]
    /\ op' = "once"
    /\ UNCHANGED <<input, ai_logs, exchanges, LAST_QUERY_SIGNALS, requests>>

DeriveBatchAgain ==
    /\ op = "once"
    /\ input.fn = "compute_batch_signals"
    /\ \E now \in Clock :
          output' = [second |-> compute_batch_signals_at(input.properties, now),
                     now2 |-> now] @@ output
    /\ op' = "return"
    /\ UNCHANGED <<input, ai_logs, exchanges, LAST_QUERY_SIGNALS, requests>>

NextRederive ==
    \/ DeriveSignals
    \/ DeriveSignalsAgain
    \/ DeriveBatch
    \/ DeriveBatchAgain

SpecRederive == InitRederive /\ [][NextRederive]_vars

\* Both derivations are done.
DerivedTwice == op = "return" /\ input.fn \in {"compute_signals", "compute_batch_signals"}

DayDependent == {"days_since_sale", "recent_sale", "classification_hint"}

RootEndpoints ==
    [ query |-> "/api/query",
      ai_summary |-> "/api/ai-summary",
      status_simple |-> "/status",
      query_simple |-> "/query",
      ai_summary_simple |-> "/ai-summary",
      upload_properties |-> "/api/upload-properties",
      location_query |-> "/api/location-query",
      batch_ai |-> "/api/ai/batch",
      recommendations |-> "/api/recommendations",
      status |-> "/api/status",
      docs |-> "/docs" ]

\* The routes of the application: one for each decorator of main.py, and the
\* documentation routes the framework adds.
Routes ==
    { <<"GET", "/">>, <<"GET", "/status">>, <<"POST", "/query">>,
      <<"POST", "/ai-summary">>, <<"GET", "/api/query">>,
      <<"POST", "/api/upload-properties">>, <<"GET", "/api/location-query">>,
      <<"POST", "/api/ai/batch">>, <<"GET", "/api/recommendations">>,
      <<"POST", "/api/ai-summary">>, <<"GET", "/api/ai-logs">>,
      <<"GET", "/api/ai-statistics">>, <<"GET", "/docs">>, <<"GET", "/redoc">>,
      <<"GET", "/openapi.json">> }

AdvertisedPaths == {RootEndpoints[name] : name \in DOMAIN RootEndpoints}

\* GET /
root ==
    [ status |-> 200, message |-> "ScoutIQ API running successfully",
      version |-> "1.0.0", endpoints |-> RootEndpoints ]

\* GET /status.  config is what load_config does ("loaded", "empty" or
\* "raises"), db_ok whether the database answers; either failure is caught
\* and reported in the body.
status_simple(config, db_ok) ==
    [ status |-> 200,
      database |-> IF db_ok THEN "Connected" ELSE "Error",
      tables_found |-> IF db_ok THEN 3 ELSE 0,
      excel_config |-> IF config \in {"loaded", "raises"} THEN "Loaded"
                       ELSE "Error" ]

\* The router's answer to a request no route matches: 405 when the path has a
\* route for another method, 404 otherwise.
no_route(method, path) ==
    IF \E route \in Routes : route[2] = path
    THEN HTTPException(405, "Method Not Allowed")
    ELSE HTTPException(404, "Not Found")

\* A row of the tax assessor table as /query selects and renames it.
AssessorRow(id) ==
    [ attom_id |-> ToString(id),
      property_address_city |-> "Austin",
      tax_market_value_total |-> Num(IF id % 2 = 1 THEN 100000 ELSE 200000),
      year_built |-> Num(2010),
      party_owner1_name_full |-> IF id % 3 = 0 THEN AcmeLlc ELSE JohnSmith ]

\* enriched.to_dict(orient="records"): the valuation is a float.
to_dict(out) ==
    [i \in DOMAIN out |->
        [primary_valuation |-> Num(out[i].primary_valuation)] @@ out[i]]

\* The body of the try block of query_simple up to the assignment.
query_records(df) ==
    LET enriched == compute_signals(df)
    IN  IF enriched.raised THEN enriched
        ELSE [raised |-> FALSE, records |-> to_dict(enriched.out)]

BatchCap == 50

\* The records whose attom_id is property_id.
matching(records, property_id) ==
    {i \in DOMAIN records : records[i].attom_id = property_id}

\* The search answering an unknown property_id as it answers an empty list.
mut_summary_of_property(records, property_id) ==
    LET found == matching(records, property_id)
    IN  IF found = {}
        THEN HTTPException(400, "No prior query results. Run /query first.")
        ELSE LET prop == records[CHOOSE i \in found : \A j \in found : i <= j]
                 result == analyze_property(prop, FALSE)
             IN  IF result.raised THEN HTTPException(500, "AI summary failed")
                 ELSE [ status |-> 200, property_id |-> property_id,
                        analysis |-> result ]

\* The single-property branch of ai_summary_simple once the list is read:
\* prop is the first matching record,
\* next((p for p in records if p.get('attom_id') == property_id), None).
summary_of_property(records, property_id) ==
    LET found == matching(records, property_id)
    IN  IF found = {}
        THEN HTTPException(404, "Property not found in last query.")
        ELSE LET prop == records[CHOOSE i \in found : \A j \in found : i <= j]
                 result == analyze_property(prop, FALSE)
             IN  IF result.raised THEN HTTPException(500, "AI summary failed")
                 ELSE [ status |-> 200, property_id |-> property_id,
                        analysis |-> result ]

\* batch = LAST_QUERY_SIGNALS[:min(50, len(LAST_QUERY_SIGNALS))]: list is the
\* object the first load of the global gave, length the len() of the second.
batch_slice(list, length) == Take(list, Min(BatchCap, length))

\* The batch branch of ai_summary_simple once the batch is cut.
summary_of_batch(batch) ==
    LET result == analyze_batch(batch, FALSE)
    IN  IF result.raised THEN HTTPException(500, "AI summary failed")
        ELSE [ status |-> 200, market_analysis |-> result,
               properties_analyzed |-> Len(batch) ]

\* The handlers that neither read nor write LAST_QUERY_SIGNALS.  Each returns
\* the response and the list as the handler leaves it.  db_ok: the database
\* answers; the rows it yields are AssessorRecords.
AssessorRecords ==
    <<BatchRecord(Null, Num(600000), JohnSmith, MISSING, Num(2010), Text)>>

derived_response(holder, ok, failure) ==
    LET results == compute_batch_signals(AssessorRecords).results
    IN  [ LAST_QUERY_SIGNALS |-> holder,
          response |-> IF ok
                       THEN [ status |-> 200, properties |-> results,
                              count |-> Len(results) ]
                       ELSE failure ]

\* GET /api/query
query_properties(holder, db_ok) ==
    derived_response(holder, db_ok, HTTPException(500, "Query failed"))

\* The handler with the list of /query assigned as well.
mut_upload_properties(holder, file_ok) ==
    [ derived_response(holder, file_ok, HTTPException(400, "Invalid upload"))
        EXCEPT !.LAST_QUERY_SIGNALS =
                   IF file_ok THEN compute_batch_signals(AssessorRecords).results
                   ELSE holder ]

\* POST /api/upload-properties
upload_properties(holder, file_ok) ==
    derived_response(holder, file_ok, HTTPException(400, "Invalid upload"))

\* GET /api/location-query
location_query(holder, db_ok) ==
    derived_response(holder, db_ok, HTTPException(500, "Location query failed"))

\* GET /api/recommendations
recommendations(holder, db_ok) ==
    derived_response(holder, db_ok, HTTPException(500, "Recommendations failed"))

(***************************************************************************)
(* The server: two worker threads, each idle or at a position of a handler. *)
(***************************************************************************)

Threads == {"t1", "t2"}

\* The exchanges with the oracle the server takes part in.
MaxOracleCalls == 1

Idle == [pc |-> "idle"]

\* The handler has returned or raised; the response waits to be sent.
Done(method, path, response) ==
    [pc |-> "done", method |-> method, path |-> path, response |-> response]

\* The frames the database yields for the filters of a /query: no row, two
\* rows, and one row more than a batch holds.
DbFrames ==
    { <<>>,
      [i \in 1..2 |-> AssessorRow(i)],
      [i \in 1..(BatchCap + 1) |-> AssessorRow(100 + i)] }

\* property_id of the payload: absent, of the two-row frame, of no frame.
PropertyIds == {NONE, "1", "999"}

InitServer ==
    /\ op = "idle"
    /\ input = NoInput
    /\ output = NoOutput
    /\ ai_logs = <<>>
    /\ exchanges = <<>>
    /\ LAST_QUERY_SIGNALS = <<>>
    /\ requests = [t \in Threads |-> Idle]

Root(t) ==
    /\ requests[t].pc = "idle"
    /\ requests' = [requests EXCEPT ![t] = Done("GET", "/", root)]
    /\ UNCHANGED <<op, input, output, ai_logs, exchanges, LAST_QUERY_SIGNALS>>

Status(t) ==
    /\ requests[t].pc = "idle"
    /\ \E config \in {"loaded", "empty", "raises"}, db_ok \in BOOLEAN :
          requests' = [requests EXCEPT
                          ![t] = Done("GET", "/status", status_simple(config, db_ok))]
    /\ UNCHANGED <<op, input, output, ai_logs, exchanges, LAST_QUERY_SIGNALS>>

\* A GET of an advertised path that has no GET route.
NoRoute(t) ==
    /\ requests[t].pc = "idle"
    /\ \E path \in AdvertisedPaths :
          /\ <<"GET", path>> \notin Routes
          /\ requests' = [requests EXCEPT
                             ![t] = Done("GET", path, no_route("GET", path))]
    /\ UNCHANGED <<op, input, output, ai_logs, exchanges, LAST_QUERY_SIGNALS>>

\* query_simple up to the assignment: the frame is read and enriched, or the
\* database fails and the handler raises HTTP 500.
QueryFetch(t) ==
    /\ requests[t].pc = "idle"
    /\ \/ \E df \in DbFrames :
             LET fetched == query_records(df)
             IN  requests' = [requests EXCEPT ![t] =
                     IF fetched.raised
                     THEN Done("POST", "/query", HTTPException(500, "Query failed"))
                     ELSE [ pc |-> "store", method |-> "POST", path |-> "/query",
                            records |-> fetched.records ]]
       \/ requests' = [requests EXCEPT ![t] =
                          Done("POST", "/query", HTTPException(500, "Query failed"))]
    /\ UNCHANGED <<op, input, output, ai_logs, exchanges, LAST_QUERY_SIGNALS>>

\* An /ai-summary handler between its first and its last read of the list.
Reading(t) ==
    /\ requests[t].pc \in {"find", "load", "slice"}
    /\ requests[t].path = "/ai-summary"

\* LAST_QUERY_SIGNALS = records, and the return.  current, of the /ai-summary
\* handlers under way, collects the lists that were current during the request.
QueryStore(t) ==
    /\ requests[t].pc = "store"
    /\ LAST_QUERY_SIGNALS' = requests[t].records
    /\ requests' =
          [u \in Threads |->
              IF u = t
              THEN Done("POST", "/query",
                        [ status |-> 200, properties |-> requests[t].records,
                          count |-> Len(requests[t].records) ])
              ELSE IF Reading(u)
              THEN [requests[u] EXCEPT !.current = @ \cup {requests[t].records}]
              ELSE requests[u]]
    /\ UNCHANGED <<op, input, output, ai_logs, exchanges>>

\* ai_summary_simple up to `if not LAST_QUERY_SIGNALS`, in either branch.
AiSummaryCheck(t) ==
    /\ requests[t].pc = "idle"
    /\ \E property_id \in PropertyIds :
          requests' = [requests EXCEPT ![t] =
              IF LAST_QUERY_SIGNALS = <<>>
              THEN Done("POST", "/ai-summary",
                        HTTPException(400, "No prior query results. Run /query first."))
                     @@ [property_id |-> property_id, current |-> {LAST_QUERY_SIGNALS}]
              ELSE [ pc |-> IF property_id # NONE THEN "find" ELSE "load",
                     method |-> "POST", path |-> "/ai-summary",
                     property_id |-> property_id,
                     current |-> {LAST_QUERY_SIGNALS} ]]
    /\ UNCHANGED <<op, input, output, ai_logs, exchanges, LAST_QUERY_SIGNALS>>

\* The search of the list, the analysis of the record found, the return.
AiSummaryFind(t) ==
    /\ requests[t].pc = "find"
    /\ requests' = [requests EXCEPT ![t] =
          Done("POST", "/ai-summary",
               summary_of_property(LAST_QUERY_SIGNALS, requests[t].property_id))
            @@ requests[t]]
    /\ UNCHANGED <<op, input, output, ai_logs, exchanges, LAST_QUERY_SIGNALS>>

\* The load of the global for the slice.
AiSummaryLoad(t) ==
    /\ requests[t].pc = "load"
    /\ requests' = [requests EXCEPT ![t] =
          [pc |-> "slice", list |-> LAST_QUERY_SIGNALS] @@ requests[t]]
    /\ UNCHANGED <<op, input, output, ai_logs, exchanges, LAST_QUERY_SIGNALS>>

\* The load of the global for len(), the slice, the analysis, the return.
AiSummarySlice(t) ==
    /\ requests[t].pc = "slice"
    /\ LET batch == batch_slice(requests[t].list, Len(LAST_QUERY_SIGNALS))
       IN  requests' = [requests EXCEPT ![t] =
               [batch |-> batch]
                 @@ Done("POST", "/ai-summary", summary_of_batch(batch))
                 @@ requests[t]]
    /\ UNCHANGED <<op, input, output, ai_logs, exchanges, LAST_QUERY_SIGNALS>>

ApiQuery(t) ==
    /\ requests[t].pc = "idle"
    /\ \E db_ok \in BOOLEAN :
          LET done == query_properties(LAST_QUERY_SIGNALS, db_ok)
          IN  /\ requests' = [requests EXCEPT
                                 ![t] = Done("GET", "/api/query", done.response)]
              /\ LAST_QUERY_SIGNALS' = done.LAST_QUERY_SIGNALS
    /\ UNCHANGED <<op, input, output, ai_logs, exchanges>>

UploadProperties(t) ==
    /\ requests[t].pc = "idle"
    /\ \E file_ok \in BOOLEAN :
          LET done == upload_properties(LAST_QUERY_SIGNALS, file_ok)
          IN  /\ requests' = [requests EXCEPT ![t] =
                     Done("POST", "/api/upload-properties", done.response)]
              /\ LAST_QUERY_SIGNALS' = done.LAST_QUERY_SIGNALS
    /\ UNCHANGED <<op, input, output, ai_logs, exchanges>>

LocationQuery(t) ==
    /\ requests[t].pc = "idle"
    /\ \E db_ok \in BOOLEAN :
          LET done == location_query(LAST_QUERY_SIGNALS, db_ok)
          IN  /\ requests' = [requests EXCEPT ![t] =
                     Done("GET", "/api/location-query", done.response)]
              /\ LAST_QUERY_SIGNALS' = done.LAST_QUERY_SIGNALS
    /\ UNCHANGED <<op, input, output, ai_logs, exchanges>>

Recommendations(t) ==
    /\ requests[t].pc = "idle"
    /\ \E db_ok \in BOOLEAN :
          LET done == recommendations(LAST_QUERY_SIGNALS, db_ok)
          IN  /\ requests' = [requests EXCEPT ![t] =
                     Done("GET", "/api/recommendations", done.response)]
              /\ LAST_QUERY_SIGNALS' = done.LAST_QUERY_SIGNALS
    /\ UNCHANGED <<op, input, output, ai_logs, exchanges>>

\* POST /api/ai-summary, with the oracle out of reach.
ApiAiSummary(t) ==
    /\ requests[t].pc = "idle"
    /\ Len(exchanges) < MaxOracleCalls
    /\ \E property_id \in {"P1", "P9"} :
          LET done == ai_summary(ai_logs, property_id, {}, NetworkFailure, TRUE)
          IN  /\ requests' = [requests EXCEPT ![t] =
                     Done("POST", "/api/ai-summary", done.response)]
              /\ ai_logs' = done.ai_logs
              /\ exchanges' = exchanges \o done.sent
    /\ UNCHANGED <<op, input, output, LAST_QUERY_SIGNALS>>

\* POST /api/ai/batch for one property, with the oracle out of reach.
ApiAiBatch(t) ==
    /\ requests[t].pc = "idle"
    /\ Len(exchanges) < MaxOracleCalls
    /\ LET done == ai_batch(ai_logs, {"P1"}, {}, <<NetworkFailure>>, TRUE)
       IN  /\ requests' = [requests EXCEPT ![t] =
                  Done("POST", "/api/ai/batch", done.response)]
           /\ ai_logs' = done.ai_logs
           /\ exchanges' = exchanges \o done.sent
    /\ UNCHANGED <<op, input, output, LAST_QUERY_SIGNALS>>

\* The response goes out and the thread is free again.
SendResponse(t) ==
    /\ requests[t].pc = "done"
    /\ requests' = [requests EXCEPT ![t] = Idle]
    /\ UNCHANGED <<op, input, output, ai_logs, exchanges, LAST_QUERY_SIGNALS>>

NextServer ==
    \E t \in Threads :
        \/ Root(t)
        \/ Status(t)
        \/ NoRoute(t)
        \/ QueryFetch(t)
        \/ QueryStore(t)
        \/ AiSummaryCheck(t)
        \/ AiSummaryFind(t)
        \/ AiSummaryLoad(t)
        \/ AiSummarySlice(t)
        \/ ApiQuery(t)
        \/ UploadProperties(t)
        \/ LocationQuery(t)
        \/ Recommendations(t)
        \/ ApiAiSummary(t)
        \/ ApiAiBatch(t)
        \/ SendResponse(t)

SpecServer == InitServer /\ [][NextServer]_vars

(***************************************************************************)
(* Properties of the server                                                *)
(***************************************************************************)

\* The thread holds the response to a request for path.
Answered(t, method, path) ==
    /\ requests[t].pc = "done"
    /\ requests[t].method = method
    /\ requests[t].path = path

\* C25, as stated: every path of the endpoints map of the root response has a
\* route, a GET of an advertised path is not answered "Not Found", and
\* GET /api/status returns HTTP 200 with the database and excel_config status.
C25_AdvertisedPathsAreRoutes ==
    \A t \in Threads :
        /\ Answered(t, "GET", "/")
              => \A name \in DOMAIN requests[t].response.endpoints :
                    \E route \in Routes :
                        route[2] = requests[t].response.endpoints[name]
        /\ (requests[t].pc = "done" /\ requests[t].path \in AdvertisedPaths)
              => requests[t].response # HTTPException(404, "Not Found")
        /\ Answered(t, "GET", "/api/status")
              => /\ requests[t].response.status = 200
                 /\ {"database", "excel_config"} \subseteq DOMAIN requests[t].response

\* The batch branch of /ai-summary has returned an analysis.
BatchAnswered(t) ==
    /\ Answered(t, "POST", "/ai-summary")
    /\ requests[t].property_id = NONE
    /\ requests[t].response.status = 200

\* C27, as stated: under any interleaving of /query and /ai-summary requests
\* a batch /ai-summary analyses exactly the first min(50, n) records, in
\* stored order, of the result set stored by the most recently completed
\* successful /query, and reports properties_analyzed equal to that number.
\* The result set is one that was the stored one at some time during the
\* request.
C27_BatchIsHeadOfStoredResults ==
    \A t \in Threads :
        BatchAnswered(t)
            => \E stored \in requests[t].current :
                  /\ requests[t].batch = Take(stored, Min(BatchCap, Len(stored)))
                  /\ requests[t].response.properties_analyzed
                        = Min(BatchCap, Len(stored))

\* C28: /ai-summary returns HTTP 400 when the list is empty (as at the start,
\* or after a /query that found no record) and HTTP 404 when a property_id is
\* given that is the attom_id of no record of the list; neither response
\* carries an analysis, and the list is left as it was.
C28_EmptyIs400AndUnknownIs404 ==
    /\ [](\A t \in Threads :
            Answered(t, "POST", "/ai-summary")
               => LET request == requests[t]
                      status == request.response.status
                  IN  /\ request.current = {<<>>} => status = 400
                      /\ status = 400 => <<>> \in request.current
                      /\ ( /\ request.property_id # NONE
                           /\ \A stored \in request.current :
                                 /\ stored # <<>>
                                 /\ matching(stored, request.property_id) = {} )
                            => status = 404
                      /\ status = 404
                            => /\ request.property_id # NONE
                               /\ \E stored \in request.current :
                                     matching(stored, request.property_id) = {}
                      /\ status \in {400, 404}
                            => DOMAIN request.response = {"status", "detail"})
    /\ [][\A t \in Threads :
            ( /\ requests'[t] # requests[t]
              /\ requests'[t].pc = "done"
              /\ requests'[t].method = "POST"
              /\ requests'[t].path = "/ai-summary" )
                => LAST_QUERY_SIGNALS' = LAST_QUERY_SIGNALS]_vars

\* A property_id of no record asked for after a /query that found records.
C28_UnknownPropertyAfterQuery ==
    /\ LAST_QUERY_SIGNALS # <<>>
    /\ \E t \in Threads :
          /\ Answered(t, "POST", "/ai-summary")
          /\ requests[t].property_id = "999"
          /\ requests[t].current = {LAST_QUERY_SIGNALS}
          /\ requests[t].response.status = 404

\* C29: LAST_QUERY_SIGNALS changes only in the step in which a /query that
\* succeeds assigns its records; a /query that fails and every other endpoint
\* leave it as it is.
C29_OnlyQueryWritesTheList ==
    [][LAST_QUERY_SIGNALS' # LAST_QUERY_SIGNALS
          => \E t \in Threads :
                /\ requests[t].pc = "store"
                /\ requests[t].path = "/query"
                /\ requests'[t].pc = "done"
                /\ requests'[t].response.status = 200
                /\ LAST_QUERY_SIGNALS' = requests'[t].response.properties]_vars

\* The list of an earlier /query is still there after a /query that failed and
\* an upload that succeeded.
C29_ListKeptByOtherRequests ==
    /\ LAST_QUERY_SIGNALS # <<>>
    /\ \E t, u \in Threads :
          /\ Answered(t, "POST", "/query")
          /\ requests[t].response.status = 500
          /\ Answered(u, "POST", "/api/upload-properties")
          /\ requests[u].response.status = 200

(***************************************************************************)
(* The order of the insights and the confidence as a function of the score *)
(***************************************************************************)

\* The place of an insight in the priority order: 1 valuation, 2 age,
\* 3 ownership, 4 flood, 5 valuation band, 6 classification.
InsightDimension(insight) ==
    IF insight \in {"Entry-level price point", "Premium valuation",
                    "Mid-market valuation"} THEN 1
    ELSE IF insight \in {"Recent construction", "Prime property age",
                         "Older property"} THEN 2
    ELSE IF insight \in {"LLC ownership", "Corporate ownership",
                         "Individual ownership"} THEN 3
    ELSE IF insight \in {"High flood risk", "Moderate flood exposure",
                         "Low flood risk"} THEN 4
    ELSE IF insight \in {"Below-market valuation",
                         "High-end market positioning"} THEN 5
    ELSE 6

\* The dimensions of a list of insights, in the order of the list.
Dimensions(insights) ==
    [i \in DOMAIN insights |-> InsightDimension(insights[i])]

\* The dimensions that have something to say about the property analysed.
Speaking(prop, analysis) ==
    {1, 6}
       \cup (IF analysis.property_age \in 21..40 THEN {} ELSE {2})
       \cup (IF GetStr(prop.ownership_type, "Unknown")
                   \in {"LLC", "Corporation", "Individual"} THEN {3} ELSE {})
       \cup (IF GetStr(prop.flood_risk, "Unknown")
                   \in {"High", "Medium", "Low"} THEN {4} ELSE {})
       \cup (IF GetStr(prop.valuation_band, "Unknown") \in {"Low", "High"}
             THEN {5} ELSE {})

\* C26: the insights of analyze_property follow the priority order valuation,
\* age, ownership, flood, valuation band, classification; no dimension gives
\* more than one entry; the list has an entry for every dimension that speaks
\* (there are at most six, so the cut to the first 6 removes nothing).
C26_InsightsInPriorityOrder ==
    Returned("analyze_property")
        => LET dims == Dimensions(output.insights)
           IN  /\ \A i, j \in DOMAIN dims : i < j => dims[i] < dims[j]
               /\ {dims[i] : i \in DOMAIN dims} = Speaking(input.prop, output)
               /\ Len(dims) <= InsightLimit

\* A property on which the age and the band are silent: four insights,
\* valuation, ownership, flood, classification.
C26_SilentDimensionsSkipped ==
    /\ Returned("analyze_property")
    /\ Dimensions(output.insights) = <<1, 3, 4, 6>>

\* The confidence analyze_property returns for a score, in hundredths.
ConfidenceOf(score) == Round2(score, CapConfidence(RawConfidence(score)))

\* C30: the confidence never falls as the score rises: every score below
\* the one returned has a confidence no higher, every score above it one no
\* lower, on -ScoreProbe..ScoreProbe, before and after the rounding.
C30_ConfidenceMonotoneInScore ==
    Returned("analyze_property")
        => /\ output.confidence = ConfidenceOf(output.investment_score)
           /\ \A score \in -ScoreProbe..ScoreProbe :
                 /\ score <= output.investment_score
                       => ConfidenceOf(score) <= output.confidence
                 /\ score >= output.investment_score
                       => ConfidenceOf(score) >= output.confidence
                 /\ CapConfidence(RawConfidence(score))
                       <= CapConfidence(RawConfidence(score + 1))

\* The analysis of a property of score 70, the first Buy score: 0.75, above
\* the 0.69 of score 69.
C30_AcrossHoldToBuy ==
    /\ Returned("analyze_property")
    /\ output.investment_score = 70
    /\ output.confidence = 75
    /\ ConfidenceOf(69) = 69

====
